---- MODULE Spec2Model ----
(***************************************************************************)
(* Smart Mirror TUI: card lifecycle and scheduling (plugins/base.py,       *)
(* core/widgets.py), the refresh body of a fetching card                   *)
(* (plugins/weather.py), the clock card (plugins/clock.py) and the         *)
(* application's card registry (core/app.py, plugins/greeter.py).          *)
(*                                                                         *)
(* Spec          cards driven by Card.start/stop or by a mounted           *)
(*               CardWidget, on one cooperative event loop, with time      *)
(*               advancing in whole ticks (one tick = one second).         *)
(* FairSpec      Spec with the fairness the event loop provides.           *)
(* RegistrySpec  the application's name -> card registry.                  *)
(***************************************************************************)
EXTENDS Integers, Sequences, FiniteSets, TLC

(***************************************************************************)
(* Bounds of the model.                                                    *)
(***************************************************************************)
\* most _update_loop tasks of one card that exist at a time
MaxTasks == 2
\* largest configured update_interval, in ticks
MaxInterval == 2

Cards == {"Weather", "Clock"}
Slots == 1..MaxTasks
\* driver 0 is the CardWidget (on_mount / timer callback); 1.. are loop tasks
Drivers == 0..MaxTasks
Payloads == {"good", "bad"}
\* Optional[datetime], relative to the current instant: None, a timestamp taken
\* at this instant ("now"), or one taken before the last tick ("earlier")
None == "None"
Stamps == {None, "now", "earlier"}

VARIABLES
    host,           \* how the card is driven: "loop" (Card.start) or "widget"
    interval,       \* config.update_interval
    weather_widget, \* WeatherCard._weather_widget is not None (compose ran)
    running,        \* Card._running
    update_task,    \* Card._update_task: 0 is None, else the task's slot
    last_update,    \* Card._last_update
    tpc,            \* position of each _update_loop task
    trem,           \* ticks a sleeping task still has to sleep
    wpc,            \* position of the card's CardWidget
    upc,            \* position inside WeatherCard.update, per driver of that card
    written,        \* fields that driver's refresh has assigned since it was invoked
    weather_data,   \* WeatherCard._weather_data
    error_message,  \* WeatherCard._error_message
    caller,         \* the coroutine calling start()/stop(): "idle" or "in_stop"
    outcome,        \* how the card's latest refresh ended ("none": in flight / never)
    invoked,        \* update() was called since the last start(), stop() or mount
    since,          \* ticks since update() was last invoked (or start() called)
    idle,           \* ticks since the last refresh finished with none in flight
    cards,          \* SmartMirrorApp.cards: name -> card object
    user_name,      \* GreeterCard._user_name, per greeter object
    greeting_widget,\* GreeterCard._greeting_widget: None or the name it shows
    reg_log,        \* the register_card calls so far, in order
    grid,           \* what SmartMirrorApp.compose yielded last (<< >>: not yet)
    card_widgets,   \* SmartMirrorApp.card_widgets: name -> card of its CardWidget
    env,            \* the environment SmartMirrorApp.__init__ reads
    startup,        \* SmartMirrorApp(): "new", "ok", or the exception it raised
    tcfg,           \* TransportCard: station_id and api_key set, delay_threshold,
                    \* max_departures
    feed,           \* what _fetch_departures gives: it raises, or the payload
    departures,     \* TransportCard._departures
    last_render,    \* TransportCard._last_render
    tresult,        \* the call made on the TransportCard and how it ended
    local_offset,   \* UTC offset of the machine's local time, in hours
    ical,           \* the VEVENT components of the feed text, in feed order
    events,         \* what CalendarCard._parse_ical_events returned
    cresult,        \* the call made on the CalendarCard and how it ended
    cal_cfg,        \* CalendarCard: ical_url set, max_events
    cal_events,     \* CalendarCard._events
    cal_error,      \* CalendarCard._error_message
    cal_widget,     \* CalendarCard._calendar_widget and the text it shows
    formatted,      \* what _format_calendar returned when called on the card
    cal_last,       \* the update() that ended last: what its fetch gave, how
                    \* it ended
    cal_calls,      \* each update() in flight: where it is suspended, and
                    \* the response its request got
    hour,           \* datetime.now().hour
    greeting,       \* what GreeterCard._get_greeting returned, and at which hour
    pir_sensor,     \* PIRScreenController._sensor is not None
    pir_timer,      \* PIRScreenController._timer: 0 is None, else the Timer
    pir_screen_on,  \* PIRScreenController._screen_on
    pir_timers,     \* each threading.Timer: its thread's position
    motion_pc,      \* the sensor's callback thread: "idle", or in _on_motion
    pir_commands,   \* the latest two wlr-randr flags issued, oldest first
    pir_stopped     \* stop() has returned and start() was not called since

vars == <<host, interval, weather_widget, running, update_task, last_update,
          tpc, trem, wpc, upc, written, weather_data, error_message,
          caller, outcome, invoked, since, idle,
          cards, user_name, greeting_widget, reg_log, grid, card_widgets,
          env, startup, tcfg, feed, departures, last_render, tresult,
          local_offset, ical, events, cresult,
          cal_cfg, cal_events, cal_error, cal_widget, formatted, cal_last,
          cal_calls,
          hour, greeting, pir_sensor, pir_timer, pir_screen_on, pir_timers,
          motion_pc, pir_commands, pir_stopped>>

reg_vars == <<cards, user_name, greeting_widget, reg_log, grid, card_widgets>>
\* the layout compose() builds
layout_vars == <<grid, card_widgets>>
sched_vars == <<host, interval, weather_widget, running, update_task, last_update,
                tpc, trem, wpc, upc, written, weather_data, error_message,
                caller, outcome, invoked, since, idle>>
\* what no scheduling step changes: the cards' configuration and the registry
startup_vars == <<env, startup>>
\* the state of the components the scheduling and registry steps do not touch
transport_vars == <<tcfg, feed, departures, last_render, tresult>>
parse_vars == <<local_offset, ical, events, cresult>>
card_state_vars == <<cal_cfg, cal_events, cal_error, cal_widget, formatted,
                     cal_last, cal_calls>>
calendar_vars == <<parse_vars, card_state_vars>>
greeting_vars == <<hour, greeting>>
pir_vars == <<pir_sensor, pir_timer, pir_screen_on, pir_timers, motion_pc,
              pir_commands, pir_stopped>>
aux_vars == <<greeting_vars, pir_vars>>
other_vars == <<startup_vars, transport_vars, calendar_vars, aux_vars>>
config_vars == <<host, interval, weather_widget, reg_vars, other_vars>>

Min(a, b) == IF a < b THEN a ELSE b

SinceCap == MaxInterval + 1

\* datetime.now()
Now == "now"
\* a timestamp once a tick has passed
Age(t) == IF t = None THEN None ELSE "earlier"

weather_vars == <<upc, written, weather_data, error_message>>
loop_vars == <<running, update_task, tpc, trem, caller>>

TypeOK ==
    /\ host \in [Cards -> {"loop", "widget"}]
    /\ interval \in [Cards -> 1..MaxInterval]
    /\ weather_widget \in BOOLEAN
    /\ running \in [Cards -> BOOLEAN]
    /\ update_task \in [Cards -> 0..MaxTasks]
    /\ last_update \in [Cards -> Stamps]
    /\ tpc \in [Cards -> [Slots -> {"none", "ready", "updating", "sleep",
                                    "returned", "cancelled"}]]
    /\ trem \in [Cards -> [Slots -> 0..MaxInterval]]
    /\ wpc \in [Cards -> {"unmounted", "mounting", "armed", "callback", "removed"}]
    /\ upc \in [Drivers -> {"idle", "get", "aexit"}]
    /\ written \in [Drivers -> SUBSET {"data", "error"}]
    /\ weather_data \in {"empty"} \cup Payloads
    /\ error_message \in {"Loading...", "", "Error"}
    /\ caller \in [Cards -> {"idle", "in_stop"}]
    /\ outcome \in [Cards -> {"none", "ok", "caught", "raised"}]
    /\ invoked \in [Cards -> BOOLEAN]
    /\ since \in [Cards -> 0..SinceCap]
    /\ idle \in [Cards -> 0..SinceCap]

(***************************************************************************)
(* Construction: Card.__init__, WeatherCard.__init__, ClockCard.__init__.  *)
(* A card is either handed to a CardWidget (the application, whose compose *)
(* has run the card's compose) or driven by its own loop (Card.start); the *)
(* latter leaves __init__ with _weather_widget None until compose is       *)
(* called on it.                                                           *)
(***************************************************************************)
InitCards ==
    /\ host \in {h \in [Cards -> {"loop", "widget"}] : h["Weather"] # h["Clock"]}
    /\ interval \in [Cards -> 1..MaxInterval]
    /\ weather_widget = (host["Weather"] = "widget")
    /\ running = [c \in Cards |-> FALSE]
    /\ update_task = [c \in Cards |-> 0]
    /\ last_update = [c \in Cards |-> None]
    /\ tpc = [c \in Cards |-> [s \in Slots |-> "none"]]
    /\ trem = [c \in Cards |-> [s \in Slots |-> 0]]
    /\ wpc = [c \in Cards |-> "unmounted"]
    /\ upc = [d \in Drivers |-> "idle"]
    /\ written = [d \in Drivers |-> {}]
    /\ weather_data = "empty"
    /\ error_message = "Loading..."
    /\ caller = [c \in Cards |-> "idle"]
    /\ outcome = [c \in Cards |-> "none"]
    /\ invoked = [c \in Cards |-> FALSE]
    /\ since = [c \in Cards |-> 0]
    /\ idle = [c \in Cards |-> 0]

(***************************************************************************)
(* The drivers' continuation once `await self.update()` has ended with     *)
(* res: "ok" or "caught" (update returned), "raised" (an Exception).       *)
(***************************************************************************)
\* LoopResume sleeping one tick longer than update_interval
LoopResume_LongSleep(c, s, res) ==
    /\ last_update' = [last_update EXCEPT ![c] = IF res = "raised" THEN @ ELSE Now]
    /\ outcome' = [outcome EXCEPT ![c] = res]
    /\ tpc' = [tpc EXCEPT ![c][s] = "sleep"]
    /\ trem' = [trem EXCEPT ![c][s] = interval[c] + 1]
    /\ idle' = [idle EXCEPT ![c] = 0]
    /\ UNCHANGED wpc

\* LoopResume without the try/except: an Exception ends the task
LoopResume_NoCatch(c, s, res) ==
    /\ last_update' = [last_update EXCEPT ![c] = IF res = "raised" THEN @ ELSE Now]
    /\ outcome' = [outcome EXCEPT ![c] = res]
    /\ tpc' = [tpc EXCEPT ![c][s] = IF res = "raised" THEN "returned" ELSE "sleep"]
    /\ trem' = [trem EXCEPT ![c][s] = IF res = "raised" THEN 0 ELSE interval[c]]
    /\ idle' = [idle EXCEPT ![c] = 0]
    /\ UNCHANGED wpc

\* Card._update_loop: stamp on return, print on Exception, then sleep
LoopResume(c, s, res) ==
    /\ last_update' = [last_update EXCEPT ![c] = IF res = "raised" THEN @ ELSE Now]
    /\ outcome' = [outcome EXCEPT ![c] = res]
    /\ tpc' = [tpc EXCEPT ![c][s] = "sleep"]
    /\ trem' = [trem EXCEPT ![c][s] = interval[c]]
    /\ idle' = [idle EXCEPT ![c] = 0]
    /\ UNCHANGED wpc

\* CardWidget._update_card: stamp on return, log on Exception; the timer
\* (set_interval, armed by on_mount after the first call) then waits again
WidgetResume(c, res) ==
    /\ last_update' = [last_update EXCEPT ![c] = IF res = "raised" THEN @ ELSE Now]
    /\ outcome' = [outcome EXCEPT ![c] = res]
    /\ wpc' = [wpc EXCEPT ![c] = "armed"]
    /\ UNCHANGED <<tpc, trem, idle>>

Resume(c, d, res) == IF d = 0 THEN WidgetResume(c, res) ELSE LoopResume(c, d, res)

(***************************************************************************)
(* The cards' refresh bodies.                                              *)
(***************************************************************************)
\* ClockCard.update formats the current time: no await, no failure, one step
ClockUpdate == "ok"

\* WeatherCard.update up to `await client.get(url)`
WeatherBegin(d) ==
    /\ upc' = [upc EXCEPT ![d] = "get"]
    /\ written' = [written EXCEPT ![d] = {}]
    /\ UNCHANGED <<weather_data, error_message>>

\* WeatherCard._format_weather raises on a payload whose "current" is no mapping
FormatWeatherRaises ==
    /\ error_message \in {"", "Loading..."}
    /\ weather_data = "bad"

\* FetchOk assigning only the payload before the next await
FetchOk_DataFirst(d, p) ==
    /\ upc[d] = "get"
    /\ weather_data' = p
    /\ written' = [written EXCEPT ![d] = {"data"}]
    /\ upc' = [upc EXCEPT ![d] = "aexit"]
    /\ UNCHANGED <<config_vars, loop_vars, wpc, last_update, error_message,
                   outcome, invoked, since, idle>>

\* the response arrived: both fields are assigned before the next await
\* (leaving `async with`, which closes the client)
FetchOk(d, p) ==
    /\ upc[d] = "get"
    /\ weather_data' = p
    /\ error_message' = ""
    /\ written' = [written EXCEPT ![d] = {"data", "error"}]
    /\ upc' = [upc EXCEPT ![d] = "aexit"]
    /\ UNCHANGED <<config_vars, loop_vars, wpc, last_update,
                   outcome, invoked, since, idle>>

\* the request failed (network, timeout, HTTP status, JSON): caught in update
FetchFail(d) ==
    /\ upc[d] = "get"
    /\ error_message' = "Error"
    /\ upc' = [upc EXCEPT ![d] = "idle"]
    /\ Resume("Weather", d, "caught")
    /\ UNCHANGED <<config_vars, running, update_task, caller, written,
                   weather_data, invoked, since>>

\* WeatherCard.compose: the card gets its Static; callable at any moment,
\* also while an update is suspended in the request or in the client's close
WeatherCompose ==
    /\ ~weather_widget
    /\ weather_widget' = TRUE
    /\ UNCHANGED <<host, interval, reg_vars, other_vars, loop_vars, weather_vars,
                   wpc, last_update, outcome, invoked, since, idle>>

\* the client is closed, the widget (if compose has run by now) is repainted
\* and update returns or raises
CloseClient(d) ==
    /\ upc[d] = "aexit"
    /\ upc' = [upc EXCEPT ![d] = "idle"]
    /\ written' = [written EXCEPT ![d] = {}]
    /\ Resume("Weather", d,
              IF weather_widget /\ FormatWeatherRaises THEN "raised" ELSE "ok")
    /\ UNCHANGED <<config_vars, running, update_task, caller,
                   weather_data, error_message, invoked, since>>

(***************************************************************************)
(* Card.start / Card.stop / Card._update_loop.                             *)
(***************************************************************************)
Live(c, s) == tpc[c][s] \in {"ready", "updating", "sleep"}
FreeSlots(c) == {s \in Slots : ~Live(c, s)}
LowestFree(c) == CHOOSE s \in FreeSlots(c) : \A t \in FreeSlots(c) : s <= t

\* a task that runs at the current instant: just created, or its sleep is over
Due(c, s) == tpc[c][s] = "ready" \/ (tpc[c][s] = "sleep" /\ trem[c][s] = 0)

Start(c) ==
    /\ host[c] = "loop"
    /\ caller[c] = "idle"
    /\ FreeSlots(c) # {}
    /\ running' = [running EXCEPT ![c] = TRUE]
    /\ update_task' = [update_task EXCEPT ![c] = LowestFree(c)]
    /\ tpc' = [tpc EXCEPT ![c][LowestFree(c)] = "ready"]
    /\ invoked' = [invoked EXCEPT ![c] = FALSE]
    /\ since' = [since EXCEPT ![c] = 0]
    /\ idle' = [idle EXCEPT ![c] = 0]
    /\ UNCHANGED <<config_vars, last_update, trem, wpc, weather_vars,
                   caller, outcome>>

\* StopFlag leaving the flag as it is
StopFlag_Kept(c) == UNCHANGED running

\* self._running = False
StopFlag(c) == running' = [running EXCEPT ![c] = FALSE]

\* stop(): clear the flag, cancel the tracked task and await it. A task that
\* is not done takes the CancelledError where it is suspended; awaiting a task
\* that is already done does not suspend.
StopCall(c) ==
    /\ host[c] = "loop"
    /\ caller[c] = "idle"
    /\ StopFlag(c)
    /\ invoked' = [invoked EXCEPT ![c] = FALSE]
    /\ since' = [since EXCEPT ![c] = 0]
    /\ idle' = [idle EXCEPT ![c] = 0]
    /\ IF update_task[c] # 0 /\ Live(c, update_task[c])
       THEN /\ tpc' = [tpc EXCEPT ![c][update_task[c]] = "cancelled"]
            /\ trem' = [trem EXCEPT ![c][update_task[c]] = 0]
            /\ upc' = IF c = "Weather"
                      THEN [upc EXCEPT ![update_task[c]] = "idle"]
                      ELSE upc
            /\ caller' = [caller EXCEPT ![c] = "in_stop"]
       ELSE UNCHANGED <<tpc, trem, upc, caller>>
    /\ UNCHANGED <<config_vars, update_task, last_update, wpc, written,
                   weather_data, error_message, outcome>>

\* `await self._update_task` raises CancelledError, which stop() swallows
StopReturn(c) ==
    /\ caller[c] = "in_stop"
    /\ caller' = [caller EXCEPT ![c] = "idle"]
    /\ UNCHANGED <<config_vars, running, update_task, last_update, tpc, trem,
                   wpc, weather_vars, outcome, invoked, since, idle>>

\* `while self._running` is false: the loop returns
LoopExit(c, s) ==
    /\ Due(c, s)
    /\ ~running[c]
    /\ tpc' = [tpc EXCEPT ![c][s] = "returned"]
    /\ UNCHANGED <<config_vars, running, update_task, last_update, trem, wpc,
                   weather_vars, caller, outcome, invoked, since, idle>>

\* LoopGuard as `while True:`
LoopGuard_NoCheck(c, s) == Due(c, s)

\* LoopGuard behind a lock shared by all cards' refreshes
LoopGuard_Locked(c, s) == Due(c, s) /\ running[c] /\ \A d \in Drivers : upc[d] = "idle"

\* `while self._running:` the task goes round the loop again
LoopGuard(c, s) == Due(c, s) /\ running[c]

\* `while self._running` is true: `await self.update()`
LoopInvoke(c, s) ==
    /\ LoopGuard(c, s)
    /\ invoked' = [invoked EXCEPT ![c] = TRUE]
    /\ since' = [since EXCEPT ![c] = 0]
    /\ IF c = "Clock"
       THEN /\ LoopResume(c, s, ClockUpdate)
            /\ UNCHANGED weather_vars
       ELSE /\ WeatherBegin(s)
            /\ tpc' = [tpc EXCEPT ![c][s] = "updating"]
            /\ outcome' = [outcome EXCEPT ![c] = "none"]
            /\ idle' = [idle EXCEPT ![c] = 0]
            /\ UNCHANGED <<last_update, trem, wpc>>
    /\ UNCHANGED <<config_vars, running, update_task, caller>>

(***************************************************************************)
(* CardWidget: on_mount calls _update_card at once and then arms           *)
(* set_interval; the timer awaits its callback before it waits again.      *)
(***************************************************************************)
WidgetInvoke(c, busy) ==
    IF c = "Clock"
    THEN /\ WidgetResume(c, ClockUpdate)
         /\ UNCHANGED weather_vars
    ELSE /\ WeatherBegin(0)
         /\ wpc' = [wpc EXCEPT ![c] = busy]
         /\ outcome' = [outcome EXCEPT ![c] = "none"]
         /\ UNCHANGED <<last_update, tpc, trem, idle>>

Mount(c) ==
    /\ host[c] = "widget"
    /\ wpc[c] = "unmounted"
    /\ WidgetInvoke(c, "mounting")
    /\ invoked' = [invoked EXCEPT ![c] = TRUE]
    /\ UNCHANGED <<config_vars, running, update_task, caller, since>>

TimerFire(c) ==
    /\ wpc[c] = "armed"
    /\ WidgetInvoke(c, "callback")
    /\ invoked' = [invoked EXCEPT ![c] = TRUE]
    /\ UNCHANGED <<config_vars, running, update_task, caller, since>>

\* the application unmounts: the widget's timer and handler are cancelled
Unmount(c) ==
    /\ wpc[c] \in {"mounting", "armed", "callback"}
    /\ wpc' = [wpc EXCEPT ![c] = "removed"]
    /\ upc' = IF c = "Weather" THEN [upc EXCEPT ![0] = "idle"] ELSE upc
    /\ UNCHANGED <<config_vars, loop_vars, last_update, written,
                   weather_data, error_message, outcome, invoked, since, idle>>

(***************************************************************************)
(* Time. Ready tasks and resumed callers run before the clock moves on.    *)
(***************************************************************************)
InFlight(c) == c = "Weather" /\ \E d \in Drivers : upc[d] # "idle"

Tick ==
    /\ \A c \in Cards : caller[c] = "idle" /\ \A s \in Slots : ~Due(c, s)
    /\ trem' = [c \in Cards |-> [s \in Slots |->
                  IF tpc[c][s] = "sleep" THEN trem[c][s] - 1 ELSE trem[c][s]]]
    /\ last_update' = [c \in Cards |-> Age(last_update[c])]
    /\ since' = [c \in Cards |->
                  IF running[c] THEN Min(since[c] + 1, SinceCap) ELSE since[c]]
    /\ idle' = [c \in Cards |->
                  IF running[c] /\ ~InFlight(c)
                  THEN Min(idle[c] + 1, SinceCap) ELSE idle[c]]
    /\ UNCHANGED <<config_vars, running, update_task, tpc, wpc, weather_vars,
                   caller, outcome, invoked>>

(***************************************************************************)
(* The registry: SmartMirrorApp.cards, register_card, get_card,            *)
(* set_user_name, and the GreeterCard they reach.                          *)
(***************************************************************************)
\* most register_card calls in one run
MaxRegs == 3

\* card objects that may be registered: their class and their config.name
\* config.position and config.enabled
CardObjs == {
    [id |-> "g1", cls |-> "GreeterCard", name |-> "Greeter",
     position |-> "middle_center", enabled |-> TRUE],
    [id |-> "g2", cls |-> "GreeterCard", name |-> "Greeter",
     position |-> "top_left", enabled |-> TRUE],
    [id |-> "g3", cls |-> "GreeterCard", name |-> "greeter",
     position |-> "middle_center", enabled |-> FALSE],
    [id |-> "k1", cls |-> "ClockCard", name |-> "Clock",
     position |-> "top_center", enabled |-> TRUE],
    [id |-> "k2", cls |-> "ClockCard", name |-> "Greeter",
     position |-> "top_center", enabled |-> TRUE] }
ObjIds == {o.id : o \in CardObjs}
Obj(i) == CHOOSE o \in CardObjs : o.id = i
Greeters == {o.id : o \in {x \in CardObjs : x.cls = "GreeterCard"}}
Names == {o.name : o \in CardObjs} \cup {"NonExistent"}
UserNames == {"there", "Alice", "Bob"}
NoCard == "None"

InitRegistry ==
    /\ cards = << >>
    /\ user_name = [g \in Greeters |-> "there"]
    /\ greeting_widget = [g \in Greeters |-> << >>]
    /\ reg_log = << >>
    /\ grid = << >>
    /\ card_widgets = << >>

\* register_card keeping the first card registered under a name
register_card_FirstWins(i) ==
    /\ Len(reg_log) < MaxRegs
    /\ cards' = [n \in DOMAIN cards \cup {Obj(i).name} |->
                   IF n \in DOMAIN cards THEN cards[n] ELSE i]
    /\ reg_log' = Append(reg_log, i)
    /\ UNCHANGED <<user_name, greeting_widget, layout_vars, sched_vars, other_vars>>

\* self.cards[card.name] = card
register_card(i) ==
    /\ Len(reg_log) < MaxRegs
    /\ cards' = [n \in DOMAIN cards \cup {Obj(i).name} |->
                   IF n = Obj(i).name THEN i ELSE cards[n]]
    /\ reg_log' = Append(reg_log, i)
    /\ UNCHANGED <<user_name, greeting_widget, layout_vars, sched_vars, other_vars>>

\* self.cards.get(name)
get_card(n) == IF n \in DOMAIN cards THEN cards[n] ELSE NoCard

\* GreeterSetUserName leaving the repaint to the next refresh
GreeterSetUserName_NoRepaint(g, n) ==
    /\ user_name' = [user_name EXCEPT ![g] = n]
    /\ UNCHANGED greeting_widget

\* GreeterCard.set_user_name: the name, and the widget when there is one
GreeterSetUserName(g, n) ==
    /\ user_name' = [user_name EXCEPT ![g] = n]
    /\ greeting_widget' = IF greeting_widget[g] # << >>
                          THEN [greeting_widget EXCEPT ![g] = <<n>>]
                          ELSE greeting_widget

\* SmartMirrorApp.set_user_name
set_user_name(n) ==
    /\ IF get_card("Greeter") # NoCard /\ Obj(get_card("Greeter")).cls = "GreeterCard"
       THEN GreeterSetUserName(get_card("Greeter"), n)
       ELSE UNCHANGED <<user_name, greeting_widget>>
    /\ UNCHANGED <<cards, reg_log, layout_vars, sched_vars, other_vars>>

\* GreeterCard.compose: the widget is created showing the current name
GreeterCompose(g) ==
    /\ greeting_widget[g] = << >>
    /\ greeting_widget' = [greeting_widget EXCEPT ![g] = <<user_name[g]>>]
    /\ UNCHANGED <<cards, user_name, reg_log, layout_vars, sched_vars, other_vars>>

\* GreeterCard.update: the refresh tick repaints the greeting
GreeterUpdate(g) ==
    /\ greeting_widget[g] # << >>
    /\ greeting_widget' = [greeting_widget EXCEPT ![g] = <<user_name[g]>>]
    /\ UNCHANGED <<cards, user_name, reg_log, layout_vars, sched_vars, other_vars>>

(***************************************************************************)
(* The layout: SmartMirrorApp.compose over the registered cards.           *)
(***************************************************************************)
\* list(CardPosition): the members in definition order
all_positions == <<"top_left", "top_center", "top_right",
                   "middle_left", "middle_center", "middle_right",
                   "bottom_left", "bottom_center", "bottom_right">>
Positions == {all_positions[k] : k \in DOMAIN all_positions}

\* position_map: the CSS class of a position
position_map == [p \in Positions |->
    CASE p = "top_left" -> "top-left"
      [] p = "top_center" -> "top-center"
      [] p = "top_right" -> "top-right"
      [] p = "middle_left" -> "middle-left"
      [] p = "middle_center" -> "middle-center"
      [] p = "middle_right" -> "middle-right"
      [] p = "bottom_left" -> "bottom-left"
      [] p = "bottom_center" -> "bottom-center"
      [] p = "bottom_right" -> "bottom-right"]

\* card.name.lower()
Lower(n) == CASE n = "Greeter" -> "greeter"
              [] n = "greeter" -> "greeter"
              [] n = "Clock" -> "clock"
              [] OTHER -> n

\* the keys of self.cards in dict order: a key keeps the place of its first
\* insertion, whatever is assigned to it later
RECURSIVE KeyOrder(_)
KeyOrder(log) ==
    IF log = << >> THEN << >>
    ELSE LET front == KeyOrder(SubSeq(log, 1, Len(log) - 1))
             n == Obj(log[Len(log)]).name
         IN  IF \E k \in DOMAIN front : front[k] = n THEN front
             ELSE Append(front, n)

\* CardWidget(card) with its id and its position class
NewCardWidget(c) ==
    [kind |-> "CardWidget", card |-> c.id, id |-> Lower(c.name),
     classes |-> position_map[c.position]]

\* Static("", classes=position_map[position])
Placeholder(p) ==
    [kind |-> "Static", card |-> NoCard, id |-> "", classes |-> position_map[p]]

\* PlaceCards keeping the first widget placed at a position
RECURSIVE PlaceCards_FirstStays(_, _)
PlaceCards_FirstStays(order, gp) ==
    IF order = << >> THEN gp
    ELSE LET c == Obj(cards[Head(order)])
         IN  PlaceCards_FirstStays(Tail(order),
                IF c.enabled /\ c.position \notin DOMAIN gp
                THEN [p \in DOMAIN gp \cup {c.position} |->
                        IF p = c.position THEN NewCardWidget(c) ELSE gp[p]]
                ELSE gp)

\* PlaceCards giving every registered card a widget, enabled or not
RECURSIVE PlaceCards_IgnoreEnabled(_, _)
PlaceCards_IgnoreEnabled(order, gp) ==
    IF order = << >> THEN gp
    ELSE LET c == Obj(cards[Head(order)])
         IN  PlaceCards_IgnoreEnabled(Tail(order),
                [p \in DOMAIN gp \cup {c.position} |->
                    IF p = c.position THEN NewCardWidget(c) ELSE gp[p]])

\* `for card in self.cards.values()`: grid_positions[card.position] = widget
\* for each enabled card
RECURSIVE PlaceCards(_, _)
PlaceCards(order, gp) ==
    IF order = << >> THEN gp
    ELSE LET c == Obj(cards[Head(order)])
         IN  PlaceCards(Tail(order),
                IF c.enabled
                THEN [p \in DOMAIN gp \cup {c.position} |->
                        IF p = c.position THEN NewCardWidget(c) ELSE gp[p]]
                ELSE gp)

\* the same loop: self.card_widgets[card.name] = widget
RECURSIVE RecordWidgets(_, _)
RecordWidgets(order, cw) ==
    IF order = << >> THEN cw
    ELSE LET c == Obj(cards[Head(order)])
         IN  RecordWidgets(Tail(order),
                IF c.enabled
                THEN [n \in DOMAIN cw \cup {c.name} |->
                        IF n = c.name THEN c.id ELSE cw[n]]
                ELSE cw)

\* `if position not in grid_positions`: a placeholder for every empty position
FillPlaceholders(gp) ==
    [p \in DOMAIN gp \cup Positions |->
        IF p \in DOMAIN gp THEN gp[p] ELSE Placeholder(p)]

\* SmartMirrorApp.compose: the elements it yields, in grid order
compose ==
    /\ grid' = [k \in DOMAIN all_positions |->
                  FillPlaceholders(PlaceCards(KeyOrder(reg_log), << >>))[all_positions[k]]]
    /\ card_widgets' = RecordWidgets(KeyOrder(reg_log), card_widgets)
    /\ UNCHANGED <<cards, user_name, greeting_widget, reg_log, sched_vars, other_vars>>

(***************************************************************************)
(* Startup: SmartMirrorApp.__init__ and _initialize_plugins.               *)
(***************************************************************************)
\* os.getenv: None when the variable is unset, else its string; strings are
\* "" (empty), a well-formed value, or one that int()/float() rejects
Unset == "None"
Envs == [CALENDAR_ICAL_URL : {Unset, "", "value"},
         TRANSPORT_STATION_ID : {Unset, "", "value"},
         TRANSPORT_API_KEY : {Unset, "", "value"},
         CALENDAR_MAX_EVENTS : {Unset, "value", "garbage"},
         WEATHER_LATITUDE : {Unset, "value", "garbage"}]
DefaultEnv == [CALENDAR_ICAL_URL |-> Unset, TRANSPORT_STATION_ID |-> Unset,
               TRANSPORT_API_KEY |-> Unset, CALENDAR_MAX_EVENTS |-> Unset,
               WEATHER_LATITUDE |-> Unset]

\* `if value:` on what os.getenv returned
Truthy(v) == v # Unset /\ v # ""

\* int(os.getenv(NAME, default)) / float(...): ValueError on a malformed string
ConvertRaises(v) == v = "garbage"

\* class Card defines no `log` attribute, and no card class defines one
CardHasLog == FALSE

\* self.log(...) in a card method: AttributeError when the card has no `log`
LogRaises == ~CardHasLog

\* the constructor calls of _initialize_plugins in order, each with the
\* exception (or "ok") that evaluating its arguments and running it gives
PluginSteps(e) ==
    <<[name |-> "Greeter", result |-> "ok"],
      [name |-> "Clock", result |-> "ok"],
      [name |-> "Weather",
       result |-> IF ConvertRaises(e.WEATHER_LATITUDE) THEN "ValueError" ELSE "ok"],
      [name |-> "QlikMenu",
       result |-> IF LogRaises THEN "AttributeError" ELSE "ok"]>>
    \o (IF Truthy(e.CALENDAR_ICAL_URL)
        THEN <<[name |-> "Calendar",
                result |-> IF ConvertRaises(e.CALENDAR_MAX_EVENTS)
                           THEN "ValueError" ELSE "ok"]>>
        ELSE << >>)
    \o (IF Truthy(e.TRANSPORT_STATION_ID) /\ Truthy(e.TRANSPORT_API_KEY)
        THEN <<[name |-> "Transport",
                result |-> IF LogRaises THEN "AttributeError" ELSE "ok"]>>
        ELSE << >>)

\* the first step that raises (0: none does)
FirstRaise(steps) ==
    IF \A k \in DOMAIN steps : steps[k].result = "ok" THEN 0
    ELSE CHOOSE k \in DOMAIN steps :
            /\ steps[k].result # "ok"
            /\ \A j \in 1..(k - 1) : steps[j].result = "ok"

\* the cards registered before the first exception, and how the call ended
RunPlugins(e) ==
    LET steps == PluginSteps(e)
        f == FirstRaise(steps)
        done == IF f = 0 THEN steps ELSE SubSeq(steps, 1, f - 1)
    IN  [registered |-> [k \in DOMAIN done |-> done[k].name],
         result |-> IF f = 0 THEN "ok" ELSE steps[f].result]

StartupIdle ==
    /\ env = DefaultEnv
    /\ startup = "new"

\* SmartMirrorApp(): self.cards = {}, then _initialize_plugins registers each
\* card it constructs, under its name
initialize_plugins ==
    /\ startup = "new"
    /\ LET r == RunPlugins(env)
       IN  /\ startup' = r.result
           /\ reg_log' = r.registered
           /\ cards' = [n \in {r.registered[k] : k \in DOMAIN r.registered} |-> n]
    /\ UNCHANGED <<env, user_name, greeting_widget, layout_vars, sched_vars,
                   transport_vars, calendar_vars, aux_vars>>

(***************************************************************************)
(* The transport card: plugins/transport.py.  Times are seconds relative   *)
(* to the instant _now_provider returns during the call (FetchNow).        *)
(***************************************************************************)
\* longest "departures" list of a payload
MaxFeed == 3
\* largest configured max_departures
MaxShown == 2

\* what _now_provider returns while one call runs
FetchNow == 0

\* an Optional value: << >> is None, <<v>> is v
Nothing == << >>
Some(v) == <<v>>

\* a timestamp of the feed: absent or empty, a string fromisoformat rejects,
\* or an ISO string of wall-clock time `wall`, naive or with UTC offset `tz`
NoStamp == [kind |-> "absent", wall |-> 0, tz |-> 0]
Garbage == [kind |-> "garbage", wall |-> 0, tz |-> 0]
Naive(wall) == [kind |-> "naive", wall |-> wall, tz |-> 0]
Iso(wall, tz) == [kind |-> "aware", wall |-> wall, tz |-> tz]

\* _parse_time: None for an empty or unparsable value; a naive time is taken
\* as UTC; the result is compared and subtracted as an instant
parse_time(value) ==
    IF value.kind \in {"absent", "garbage"} THEN Nothing
    ELSE Some(value.wall - (IF value.kind = "naive" THEN 0 ELSE value.tz))

\* a record of the feed: {} (kind "empty") or a departure
FeedEntry(canceled, realtime, scheduled, delay) ==
    [kind |-> "entry", canceled |-> canceled, realtime |-> realtime,
     scheduled |-> scheduled, delay |-> delay]
EmptyEntry == [kind |-> "empty", canceled |-> FALSE, realtime |-> NoStamp,
               scheduled |-> NoStamp, delay |-> 0]

\* parse_entry keeping the records flagged canceled
parse_entry_KeepCanceled(entry) ==
    IF entry.kind = "empty" THEN Nothing
    ELSE Some([expected |-> parse_time(entry.realtime),
               timetable |-> parse_time(entry.scheduled),
               delay_seconds |-> entry.delay])

\* _parse_entry: None for an empty or canceled record
parse_entry(entry) ==
    IF entry.kind = "empty" \/ entry.canceled THEN Nothing
    ELSE Some([expected |-> parse_time(entry.realtime),
               timetable |-> parse_time(entry.scheduled),
               delay_seconds |-> entry.delay])

\* _sort_key: expected, else timetable, else now
sort_key(item) ==
    IF item.expected # Nothing THEN item.expected[1]
    ELSE IF item.timetable # Nothing THEN item.timetable[1]
    ELSE FetchNow

\* list.sort(key=...) is stable: an item goes after the items whose key is
\* not greater than its own
RECURSIVE SortByKey(_)
SortByKey(items) ==
    IF items = << >> THEN << >>
    ELSE LET front == SortByKey(SubSeq(items, 1, Len(items) - 1))
             x == items[Len(items)]
             k == Cardinality({i \in DOMAIN front : sort_key(front[i]) <= sort_key(x)})
         IN  SubSeq(front, 1, k) \o <<x>> \o SubSeq(front, k + 1, Len(front))

\* the loop of _parse_departures: the parsed records, in feed order
RECURSIVE ParsedItems(_)
ParsedItems(entries) ==
    IF entries = << >> THEN << >>
    ELSE ParsedItems(SubSeq(entries, 1, Len(entries) - 1))
         \o parse_entry(entries[Len(entries)])

\* _parse_departures
parse_departures(payload) == SortByKey(ParsedItems(payload))

\* math.ceil(delta / 60), delta in whole seconds
CeilMinutes(delta) == (delta + 59) \div 60

\* format_time rounding the minutes down
format_time_Floor(expected) ==
    IF expected = Nothing THEN [phrase |-> "n/a", minutes |-> 0]
    ELSE LET delta == expected[1] - FetchNow
         IN  IF delta < -60 THEN [phrase |-> "left", minutes |-> 0]
             ELSE IF delta < 60 THEN [phrase |-> "now", minutes |-> 0]
             ELSE [phrase |-> "in", minutes |-> delta \div 60]

\* _format_time: "left", "now", "in {minutes}m (HH:MM)" or "n/a"
format_time(expected) ==
    IF expected = Nothing THEN [phrase |-> "n/a", minutes |-> 0]
    ELSE LET delta == expected[1] - FetchNow
         IN  IF delta < -60 THEN [phrase |-> "left", minutes |-> 0]
             ELSE IF delta < 60 THEN [phrase |-> "now", minutes |-> 0]
             ELSE [phrase |-> "in", minutes |-> CeilMinutes(delta)]

\* int(round(delay_seconds / 60)): to the nearest integer, a tie to the even one
RoundMinutes(d) ==
    LET q == d \div 60
        r == d % 60
    IN  IF r < 30 THEN q
        ELSE IF r > 30 THEN q + 1
        ELSE IF q % 2 = 0 THEN q ELSE q + 1

Abs(x) == IF x < 0 THEN -x ELSE x

\* format_delay with int(delay_seconds / 60): the minutes cut, not rounded
format_delay_Truncate(delay_seconds, threshold) ==
    IF delay_seconds = 0 \/ Abs(delay_seconds) < threshold THEN Nothing
    ELSE LET minutes == IF delay_seconds >= 0 THEN delay_seconds \div 60
                        ELSE -((-delay_seconds) \div 60)
         IN  Some([sign |-> IF minutes >= 0 THEN "+" ELSE "-",
                   minutes |-> Abs(minutes)])

\* format_delay warning only above the threshold
format_delay_Above(delay_seconds, threshold) ==
    IF delay_seconds = 0 \/ Abs(delay_seconds) <= threshold THEN Nothing
    ELSE LET minutes == RoundMinutes(delay_seconds)
         IN  Some([sign |-> IF minutes >= 0 THEN "+" ELSE "-",
                   minutes |-> Abs(minutes)])

\* _format_delay: "" or "[WARN {sign}{abs(minutes)}m]"
format_delay(delay_seconds, threshold) ==
    IF delay_seconds = 0 \/ Abs(delay_seconds) < threshold THEN Nothing
    ELSE LET minutes == RoundMinutes(delay_seconds)
         IN  Some([sign |-> IF minutes >= 0 THEN "+" ELSE "-",
                   minutes |-> Abs(minutes)])

\* _format_line: the parts of one line (dep: the departure whose line,
\* destination and mode it shows)
format_line(dep, threshold) ==
    [dep |-> dep,
     time_part |-> format_time(dep.expected),
     delay_part |-> format_delay(dep.delay_seconds, threshold)]

\* format_departures rendering every departure
format_departures_All(deps, cfg) ==
    [k \in DOMAIN deps |-> format_line(deps[k], cfg.delay_threshold)]

\* _format_departures: a line for each of departures[:max_departures]
format_departures(deps, cfg) ==
    [k \in 1..Min(cfg.max_departures, Len(deps)) |->
        format_line(deps[k], cfg.delay_threshold)]

\* what self._last_render holds: a fixed message, or the lines of the list
Text(t) == [text |-> t, lines |-> << >>]
Lines(ls) == [text |-> "lines", lines |-> ls]

\* TransportCard.update, from the call to its return or to the exception that
\* leaves it: every _set_message stores the text and then calls self.log
update_result(cfg, fd, render, deps) ==
    IF ~cfg.configured
    THEN [last_render |-> Text("Transport card not configured"),
          departures |-> deps,
          result |-> IF LogRaises THEN "AttributeError" ELSE "returned"]
    ELSE IF LogRaises
    THEN [last_render |-> render, departures |-> deps, result |-> "AttributeError"]
    ELSE IF fd.raises
    THEN [last_render |-> Text("Error"), departures |-> deps, result |-> "returned"]
    ELSE IF parse_departures(fd.departures) = << >>
    THEN [last_render |-> Text("No upcoming departures"),
          departures |-> << >>, result |-> "returned"]
    ELSE [last_render |-> Lines(format_departures(parse_departures(fd.departures), cfg)),
          departures |-> parse_departures(fd.departures),
          result |-> "returned"]

\* feeds that exercise filtering and sorting
SortEntries ==
    {EmptyEntry, FeedEntry(TRUE, Naive(300), NoStamp, 0)}
    \cup {FeedEntry(FALSE, r, sc, 0) :
            r \in {NoStamp, Garbage, Naive(-600), Iso(4200, 3600)},
            sc \in {NoStamp, Naive(300)}}
SortFeeds == UNION {[1..n -> SortEntries] : n \in 0..MaxFeed}

\* departures that exercise the ETA phrase and the delay warning
EtaTimes == {-120, -61, -60, -59, 0, 59, 60, 61, 119, 120, 121, 480}
Delays == {-180, -90, -30, -20, 0, 20, 30, 60, 90, 150, 180}
Thresholds == {0, 20, 60, 180, 181}
LineFeeds == {<<FeedEntry(FALSE, Naive(t), NoStamp, d)>> : t \in EtaTimes, d \in Delays}
             \cup {<<FeedEntry(FALSE, Iso(4080, 3600), Naive(300), 180)>>}

TransportIdle ==
    /\ tcfg = [configured |-> TRUE, delay_threshold |-> 60, max_departures |-> 6]
    /\ feed = [raises |-> FALSE, departures |-> << >>]
    /\ departures = << >>
    /\ last_render = Text("")
    /\ tresult = "new"

\* card._parse_departures(payload) called on a new card
ParseDepartures ==
    /\ tresult = "new" /\ ~feed.raises
    /\ departures' = parse_departures(feed.departures)
    /\ tresult' = "parsed"
    /\ UNCHANGED <<tcfg, feed, last_render, sched_vars, reg_vars, startup_vars,
                   calendar_vars, aux_vars>>

\* card._format_departures(departures) called on the parsed list
FormatDepartures ==
    /\ tresult = "parsed"
    /\ last_render' = Lines(format_departures(departures, tcfg))
    /\ tresult' = "formatted"
    /\ UNCHANGED <<tcfg, feed, departures, sched_vars, reg_vars, startup_vars,
                   calendar_vars, aux_vars>>

\* await card.update() on a new card
TransportUpdate ==
    /\ tresult = "new"
    /\ LET r == update_result(tcfg, feed, last_render, departures)
       IN  /\ last_render' = r.last_render
           /\ departures' = r.departures
           /\ tresult' = r.result
    /\ UNCHANGED <<tcfg, feed, sched_vars, reg_vars, startup_vars,
                   calendar_vars, aux_vars>>

(***************************************************************************)
(* The calendar card: plugins/calendar.py.  Times are whole hours; a wall  *)
(* clock reading is given relative to the reading of a UTC clock at the    *)
(* instant _parse_ical_events takes "now".                                 *)
(***************************************************************************)
\* most VEVENT components in a feed
MaxComponents == 3

\* the UTC clock at the instant of the call, and its hour of the day
CalNow == 0
NowHour == 9

\* UTC offsets the machine's local zone may have
LocalOffsets == {-2, 0, 2}

\* component.get("dtstart"): absent, or a value whose .dt is a naive
\* datetime, a date, or a datetime with a zone
DtNone == [kind |-> "none", wall |-> 0, tz |-> 0]
DtNaive(wall) == [kind |-> "naive", wall |-> wall, tz |-> 0]
DtDate(day) == [kind |-> "date", wall |-> day, tz |-> 0]
DtAware(wall, tz) == [kind |-> "aware", wall |-> wall, tz |-> tz]

\* datetime.combine(date, datetime.min.time()): the wall clock at the start
\* of the day that is `day` days after today (by the UTC clock)
Midnight(day) == 24 * day - NowHour

\* the start as an aware datetime: its wall clock and its zone's offset
normalize_start(start) ==
    IF start.kind = "naive" THEN [wall |-> start.wall, tz |-> 0]
    ELSE IF start.kind = "date" THEN [wall |-> Midnight(start.wall), tz |-> 0]
    ELSE [wall |-> start.wall, tz |-> start.tz]

\* the instant an aware datetime denotes, on the UTC clock
Instant(dt) == dt.wall - dt.tz

\* datetime.now(): the local wall clock, naive
LocalNow(offset) == CalNow + offset

\* keys of EVENT_ICONS in their order; the icon is named by its key
EVENT_ICONS == <<"meeting", "call", "lunch", "birthday", "travel", "workout",
                 "doctor", "default">>

\* component.get("summary"): absent, empty, or a title
NoSummary == "None"
Summaries == {NoSummary, "", "Team Meeting", "Lunch call", "Dentist"}

\* the keys that occur in summary.lower()
KeywordsIn(summary) ==
    IF summary = "Team Meeting" THEN {"meeting"}
    ELSE IF summary = "Lunch call" THEN {"lunch", "call"}
    ELSE {}

RECURSIVE FirstKeyword(_, _)
FirstKeyword(found, k) ==
    IF k > Len(EVENT_ICONS) THEN "default"
    ELSE IF EVENT_ICONS[k] \in found THEN EVENT_ICONS[k]
    ELSE FirstKeyword(found, k + 1)

get_event_icon(summary) == FirstKeyword(KeywordsIn(summary), 1)

\* `if start and summary`
HasStartAndSummary(c) ==
    c.start.kind # "none" /\ c.summary # NoSummary /\ c.summary # ""

\* `start_dt.replace(tzinfo=None) >= now.replace(tzinfo=None)`
IsUpcoming(start_dt, offset) == start_dt.wall >= LocalNow(offset)

EventOf(c) ==
    [summary |-> c.summary, start |-> normalize_start(c.start),
     icon |-> get_event_icon(c.summary)]

RECURSIVE CollectEvents(_, _)
CollectEvents(components, offset) ==
    IF components = << >> THEN << >>
    ELSE LET c == Head(components)
             rest == CollectEvents(Tail(components), offset)
         IN  IF HasStartAndSummary(c)
                /\ IsUpcoming(normalize_start(c.start), offset)
             THEN <<EventOf(c)>> \o rest
             ELSE rest

\* events.sort(key=lambda x: x["start"]): stable, aware datetimes compare
\* as instants
RECURSIVE InsertByStart(_, _)
InsertByStart(sorted, e) ==
    IF sorted = << >> THEN <<e>>
    ELSE IF Instant(e.start) < Instant(Head(sorted).start)
         THEN <<e>> \o sorted
         ELSE <<Head(sorted)>> \o InsertByStart(Tail(sorted), e)

RECURSIVE SortByStart(_)
SortByStart(evs) ==
    IF evs = << >> THEN << >>
    ELSE InsertByStart(SortByStart(SubSeq(evs, 1, Len(evs) - 1)), evs[Len(evs)])

parse_ical_events(components, offset) ==
    SortByStart(CollectEvents(components, offset))

\* the components the feeds are made of
CalComponents ==
    {[start |-> DtNaive(1), summary |-> "Team Meeting"],
     [start |-> DtNaive(-1), summary |-> "Dentist"],
     [start |-> DtNaive(3), summary |-> ""],
     [start |-> DtNone, summary |-> "Dentist"],
     [start |-> DtDate(0), summary |-> "Lunch call"],
     [start |-> DtDate(1), summary |-> NoSummary],
     [start |-> DtAware(1, 2), summary |-> "Dentist"],
     [start |-> DtAware(-1, -2), summary |-> "Lunch call"],
     [start |-> DtAware(3, 0), summary |-> "Team Meeting"]}

CalFeeds ==
    UNION {[1..n -> CalComponents] : n \in 0..MaxComponents}

\* _error_message: "Loading...", "", "No iCal URL configured", or a prefix
\* followed by `detail` characters of the exception's text
ErrLoading == [kind |-> "Loading...", detail |-> 0]
ErrNone == [kind |-> "", detail |-> 0]
ErrNoUrl == [kind |-> "No iCal URL configured", detail |-> 0]
ErrHttp(n) == [kind |-> "HTTP Error: ", detail |-> n]
ErrOther(n) == [kind |-> "Error: ", detail |-> n]

\* dt.date(): the day of a wall clock reading, counted from today by the UTC
\* clock
DateOf(wall) == (wall + NowHour) \div 24

\* CalendarCard._format_time: now is taken in the zone of dt
calendar_format_time(dt) ==
    LET today == DateOf(CalNow + dt.tz)
    IN  IF DateOf(dt.wall) = today THEN "Today"
        ELSE IF DateOf(dt.wall) = today + 1 THEN "Tomorrow"
        ELSE "date"

\* what a Static shows: the card's rendering, or the text compose() gave it
Rendering(kind, error, lines) == [kind |-> kind, error |-> error, lines |-> lines]
LoadingText == Rendering("Loading calendar...", ErrNone, << >>)

\* the two lines of the i-th displayed event: the first event is bold
EventLines(event, i) ==
    [icon |-> event.icon, summary |-> event.summary,
     time_str |-> calendar_format_time(event.start), bold |-> (i = 1)]

\* _format_calendar without the cap
format_calendar_All(evs, error, max_events) ==
    Rendering("events", ErrNone, [i \in DOMAIN evs |-> EventLines(evs[i], i)])

\* CalendarCard._format_calendar; self._events[: self.max_events] for a cap
\* that is not negative
format_calendar(evs, error, max_events) ==
    IF error # ErrNone /\ error # ErrLoading
    THEN Rendering("Calendar Error", error, << >>)
    ELSE IF evs = << >> THEN Rendering("No upcoming events", ErrNone, << >>)
    ELSE LET shown == SubSeq(evs, 1, Min(max_events, Len(evs)))
         IN  Rendering("events", ErrNone,
                       [i \in DOMAIN shown |-> EventLines(shown[i], i)])

\* the update() coroutines of one card that are in flight at once: the
\* CardWidget's timer and Card._update_loop each await card.update()
MaxCalls == 2
CalCalls == 1..MaxCalls

\* CalendarCard(ical_url=...): _events = [], _error_message = "Loading...",
\* no widget until compose(), no update() under way
NewCalendarCard ==
    /\ cal_events = << >>
    /\ cal_error = ErrLoading
    /\ cal_widget = [composed |-> FALSE, content |-> LoadingText]
    /\ formatted = LoadingText
    /\ cal_last = [response |-> [kind |-> "none", feed |-> << >>, len |-> 0],
                   result |-> "none"]
    /\ cal_calls = [u \in CalCalls |->
                      [pc |-> "idle",
                       response |-> [kind |-> "none", feed |-> << >>, len |-> 0]]]

CalendarIdle ==
    /\ local_offset = 0
    /\ ical = << >>
    /\ events = << >>
    /\ cresult = "new"
    /\ cal_cfg = [configured |-> TRUE, max_events |-> 3]
    /\ NewCalendarCard

\* card._parse_ical_events(ical_data) on a feed that parses
ParseIcal ==
    /\ cresult = "new"
    /\ events' = parse_ical_events(ical, local_offset)
    /\ cresult' = "parsed"
    /\ UNCHANGED <<local_offset, ical, card_state_vars, sched_vars, reg_vars,
                   startup_vars, transport_vars, aux_vars>>

\* card._events = events; card._format_calendar()
FormatCalendar ==
    /\ cresult = "parsed"
    /\ cal_events' = events
    /\ formatted' = format_calendar(events, cal_error, cal_cfg.max_events)
    /\ cresult' = "formatted"
    /\ UNCHANGED <<local_offset, ical, events, cal_cfg, cal_error, cal_widget,
                   cal_last, cal_calls, sched_vars, reg_vars, startup_vars,
                   transport_vars, aux_vars>>

\* str(e)[:30]: the characters of an exception's text that are kept
MaxDetail == 30
Truncate(n) == Min(n, MaxDetail)

\* len("'CalendarCard' object has no attribute 'log'")
AttributeErrorLen == 44

\* lengths of the text of the exceptions a fetch raises
ErrLens == {12, 30, 45}

\* the feeds a fetch returns
RefreshFeeds == {f \in CalFeeds : Len(f) <= 1}

\* what client.get / raise_for_status / Calendar.from_ical meet in one
\* refresh: a feed that parses, an httpx.HTTPError (a timeout is one), any
\* other exception, or a text that from_ical rejects
Response(kind, f, n) == [kind |-> kind, feed |-> f, len |-> n]
Responses ==
    {Response("ok", f, 0) : f \in RefreshFeeds}
    \cup {Response("http_error", << >>, n) : n \in ErrLens}
    \cup {Response("other_error", << >>, n) : n \in ErrLens}
    \cup {Response("malformed", << >>, 0)}

\* the card after the try statement of update(), and whether an exception
\* is on its way out of update()
AfterTry(evs, error, raised) == [events |-> evs, error |-> error, raised |-> raised]

\* lines 211-225: every except branch sets _error_message and then calls
\* self.log; _parse_ical_events calls self.log when from_ical raises, and
\* returns [] if that call returns
update_try(evs, error, r, offset) ==
    IF r.kind = "ok"
    THEN AfterTry(parse_ical_events(r.feed, offset), ErrNone, FALSE)
    ELSE IF r.kind = "http_error"
    THEN AfterTry(evs, ErrHttp(Truncate(r.len)), LogRaises)
    ELSE IF r.kind = "other_error"
    THEN AfterTry(evs, ErrOther(Truncate(r.len)), LogRaises)
    ELSE IF LogRaises
         THEN AfterTry(evs, ErrOther(Truncate(AttributeErrorLen)), LogRaises)
         ELSE AfterTry(<< >>, ErrNone, FALSE)

\* CalendarCard.compose
CalendarCompose ==
    /\ ~cal_widget.composed
    /\ cal_widget' = [composed |-> TRUE, content |-> LoadingText]
    /\ UNCHANGED <<parse_vars, cal_cfg, cal_events, cal_error, formatted,
                   cal_last, cal_calls, sched_vars, reg_vars, startup_vars,
                   transport_vars, aux_vars>>

NoResponse == Response("none", << >>, 0)
CallAt(pc, r) == [pc |-> pc, response |-> r]

\* lines 228-229: the widget, if compose has run, shows _format_calendar()
Repainted(evs, error) ==
    IF cal_widget.composed
    THEN [cal_widget EXCEPT !.content =
            format_calendar(evs, error, cal_cfg.max_events)]
    ELSE cal_widget

\* the body of the `async with` runs to its end on response r: the request
\* returned a text, and _parse_ical_events returned
BodyCompletes(r) == r.kind = "ok" \/ (r.kind = "malformed" /\ ~LogRaises)

\* update() is called (lines 203-213): without a URL it sets the message,
\* repaints and returns at once; with one it sends the request and is
\* suspended in `await client.get`
CalendarUpdate(u) ==
    /\ cresult \in {"new", "updated"}
    /\ cal_calls[u].pc = "idle"
    /\ cresult' = "updated"
    /\ IF ~cal_cfg.configured
       THEN /\ cal_error' = ErrNoUrl
            /\ cal_widget' = Repainted(cal_events, ErrNoUrl)
            /\ cal_last' = [response |-> NoResponse, result |-> "returned"]
            /\ cal_calls' = cal_calls
       ELSE /\ cal_calls' = [cal_calls EXCEPT ![u] = CallAt("get", NoResponse)]
            /\ UNCHANGED <<cal_error, cal_widget, cal_last>>
    /\ UNCHANGED <<local_offset, ical, events, cal_cfg, cal_events, formatted,
                   sched_vars, reg_vars, startup_vars, transport_vars, aux_vars>>

\* the request of call u ends with response r (lines 213-225).  A text that
\* parses is stored with the message cleared, and the call is suspended in
\* the client's close; an exception takes its except branch, which sets the
\* message and calls self.log, and the call repaints and returns only if
\* that call returns
CalendarGet(u, r) ==
    /\ cal_calls[u].pc = "get"
    /\ LET t == update_try(cal_events, cal_error, r, local_offset)
       IN  /\ cal_events' = t.events
           /\ cal_error' = t.error
           /\ IF BodyCompletes(r)
              THEN /\ cal_calls' = [cal_calls EXCEPT ![u] = CallAt("aexit", r)]
                   /\ UNCHANGED <<cal_widget, cal_last>>
              ELSE /\ cal_calls' = [cal_calls EXCEPT ![u] = CallAt("idle", NoResponse)]
                   /\ cal_widget' = IF t.raised THEN cal_widget
                                    ELSE Repainted(t.events, t.error)
                   /\ cal_last' = [response |-> r,
                                   result |-> IF t.raised THEN "AttributeError"
                                              ELSE "returned"]
    /\ UNCHANGED <<parse_vars, cal_cfg, formatted, sched_vars, reg_vars,
                   startup_vars, transport_vars, aux_vars>>

\* the client of call u is closed (line 212), and the call repaints the
\* widget from what _events and _error_message hold by now (lines 228-229)
CalendarClose(u) ==
    /\ cal_calls[u].pc = "aexit"
    /\ cal_calls' = [cal_calls EXCEPT ![u] = CallAt("idle", NoResponse)]
    /\ cal_widget' = Repainted(cal_events, cal_error)
    /\ cal_last' = [response |-> cal_calls[u].response, result |-> "returned"]
    /\ UNCHANGED <<parse_vars, cal_cfg, cal_events, cal_error, formatted,
                   sched_vars, reg_vars, startup_vars, transport_vars, aux_vars>>

\* the task awaiting call u is cancelled (Card.stop) while the call is
\* suspended: CancelledError passes both except branches, nothing more is
\* written
CalendarCancel(u) ==
    /\ cal_calls[u].pc \in {"get", "aexit"}
    /\ cal_calls' = [cal_calls EXCEPT ![u] = CallAt("idle", NoResponse)]
    /\ cal_last' = [response |-> cal_calls[u].response, result |-> "cancelled"]
    /\ UNCHANGED <<parse_vars, cal_cfg, cal_events, cal_error, cal_widget,
                   formatted, sched_vars, reg_vars, startup_vars,
                   transport_vars, aux_vars>>

(***************************************************************************)
(* The greeting: plugins/greeter.py.                                       *)
(***************************************************************************)
\* the values of datetime.now().hour
Hours == 0..23

\* _get_greeting with the evening lasting through hour 22
get_greeting_LateEvening(h) ==
    IF 5 <= h /\ h < 12 THEN "Good morning"
    ELSE IF 12 <= h /\ h < 17 THEN "Good afternoon"
    ELSE IF 17 <= h /\ h <= 22 THEN "Good evening"
    ELSE "Good night"

\* GreeterCard._get_greeting at hour h
get_greeting(h) ==
    IF 5 <= h /\ h < 12 THEN "Good morning"
    ELSE IF 12 <= h /\ h < 17 THEN "Good afternoon"
    ELSE IF 17 <= h /\ h < 22 THEN "Good evening"
    ELSE "Good night"

NoGreeting == [hour |-> -1, phrase |-> "none"]

GreeterIdle ==
    /\ hour = 8
    /\ greeting = NoGreeting

\* greeter._get_greeting()
GetGreeting ==
    /\ greeting' = [hour |-> hour, phrase |-> get_greeting(hour)]
    /\ UNCHANGED <<hour, pir_vars, sched_vars, reg_vars, startup_vars,
                   transport_vars, calendar_vars>>

\* the clock reaches the next hour
HourPasses ==
    /\ hour' = (hour + 1) % 24
    /\ UNCHANGED <<greeting, pir_vars, sched_vars, reg_vars, startup_vars,
                   transport_vars, calendar_vars>>

(***************************************************************************)
(* The motion-sensor screen controller: services/pir_controller.py.        *)
(***************************************************************************)
\* threading.Timer objects whose threads are alive at once
MaxTimers == 3
Timers == 1..MaxTimers

\* PIRScreenController(): no sensor, no timer, screen off
PirIdle ==
    /\ pir_sensor = FALSE
    /\ pir_timer = 0
    /\ pir_screen_on = FALSE
    /\ pir_timers = [t \in Timers |-> "dead"]
    /\ motion_pc = "idle"
    /\ pir_commands = << >>
    /\ pir_stopped = FALSE

AuxIdle == GreeterIdle /\ PirIdle

\* _run_screen_command(flag): the flag joins the latest two issued
Issue(cmds, flag) ==
    IF Len(cmds) < 2 THEN Append(cmds, flag) ELSE <<cmds[2], flag>>

Screen(on, cmds) == [on |-> on, cmds |-> cmds]

\* _turn_screen_on without the test of _screen_on
turn_screen_on_Always(on, cmds) == Screen(TRUE, Issue(cmds, "--on"))

\* PIRScreenController._turn_screen_on
turn_screen_on(on, cmds) ==
    IF ~on THEN Screen(TRUE, Issue(cmds, "--on")) ELSE Screen(on, cmds)

\* PIRScreenController._turn_screen_off
turn_screen_off(on, cmds) ==
    IF on THEN Screen(FALSE, Issue(cmds, "--off")) ELSE Screen(on, cmds)

\* threading.Timer.cancel(): a timer still in its wait never calls its
\* function; one that has left the wait has passed the test of the flag and
\* goes on into _on_timeout.  `by` tells who cancelled: "motion" or "stop"
timer_cancel(state, by) ==
    IF state = "armed" THEN "dead"
    ELSE IF state = "fired"
         THEN (IF by = "motion" THEN "fired_superseded" ELSE "fired_cancelled")
    ELSE state

\* `if self._timer is not None: self._timer.cancel()`
cancel_tracked(timers, tracked, by) ==
    IF tracked = 0 THEN timers
    ELSE [timers EXCEPT ![tracked] = timer_cancel(timers[tracked], by)]

\* PIRScreenController.start: a sensor with when_motion set (the default
\* factory gives no second sensor on a pin that is in use)
PirStart ==
    /\ pir_sensor' = TRUE
    /\ pir_stopped' = FALSE
    /\ UNCHANGED <<pir_timer, pir_screen_on, pir_timers, motion_pc, pir_commands,
                   greeting_vars, sched_vars, reg_vars, startup_vars,
                   transport_vars, calendar_vars>>

\* stop() that leaves the sensor open
PirStop_KeepSensor ==
    /\ LET s == turn_screen_off(pir_screen_on, pir_commands)
       IN  /\ pir_timers' = cancel_tracked(pir_timers, pir_timer, "stop")
           /\ pir_timer' = 0
           /\ pir_sensor' = pir_sensor
           /\ pir_screen_on' = s.on
           /\ pir_commands' = s.cmds
    /\ pir_stopped' = TRUE
    /\ UNCHANGED <<motion_pc, greeting_vars, sched_vars, reg_vars, startup_vars,
                   transport_vars, calendar_vars>>

\* PIRScreenController.stop, from taking the lock to its return
PirStop ==
    /\ LET s == turn_screen_off(pir_screen_on, pir_commands)
       IN  /\ pir_timers' = cancel_tracked(pir_timers, pir_timer, "stop")
           /\ pir_timer' = 0
           /\ pir_sensor' = FALSE
           /\ pir_screen_on' = s.on
           /\ pir_commands' = s.cmds
    /\ pir_stopped' = TRUE
    /\ UNCHANGED <<motion_pc, greeting_vars, sched_vars, reg_vars, startup_vars,
                   transport_vars, calendar_vars>>

\* the sensor sees motion: its thread calls _on_motion and reaches the lock
MotionDetected ==
    /\ pir_sensor
    /\ motion_pc = "idle"
    /\ motion_pc' = "waiting"
    /\ UNCHANGED <<pir_sensor, pir_timer, pir_screen_on, pir_timers,
                   pir_commands, pir_stopped, greeting_vars, sched_vars,
                   reg_vars, startup_vars, transport_vars, calendar_vars>>

\* _on_motion under the lock; t is the Timer it creates and starts
OnMotion(t) ==
    /\ motion_pc = "waiting"
    /\ pir_timers[t] = "dead"
    /\ LET s == turn_screen_on(pir_screen_on, pir_commands)
       IN  /\ pir_timers' = [cancel_tracked(pir_timers, pir_timer, "motion")
                               EXCEPT ![t] = "armed"]
           /\ pir_timer' = t
           /\ pir_screen_on' = s.on
           /\ pir_commands' = s.cmds
    /\ motion_pc' = "idle"
    /\ UNCHANGED <<pir_sensor, pir_stopped, greeting_vars, sched_vars, reg_vars,
                   startup_vars, transport_vars, calendar_vars>>

\* the wait of Timer t ends uncancelled: its thread calls _on_timeout and
\* reaches the lock
TimerFires(t) ==
    /\ pir_timers[t] = "armed"
    /\ pir_timers' = [pir_timers EXCEPT ![t] = "fired"]
    /\ UNCHANGED <<pir_sensor, pir_timer, pir_screen_on, motion_pc,
                   pir_commands, pir_stopped, greeting_vars, sched_vars,
                   reg_vars, startup_vars, transport_vars, calendar_vars>>

\* _on_timeout under the lock, on the thread of Timer t
OnTimeout(t) ==
    /\ pir_timers[t] \in {"fired", "fired_superseded", "fired_cancelled"}
    /\ LET s == turn_screen_off(pir_screen_on, pir_commands)
       IN  /\ pir_timer' = 0
           /\ pir_screen_on' = s.on
           /\ pir_commands' = s.cmds
    /\ pir_timers' = [pir_timers EXCEPT ![t] = "dead"]
    /\ UNCHANGED <<pir_sensor, motion_pc, pir_stopped, greeting_vars,
                   sched_vars, reg_vars, startup_vars, transport_vars,
                   calendar_vars>>

(***************************************************************************)
(* Specifications.                                                         *)
(***************************************************************************)
Init == InitCards /\ InitRegistry /\ StartupIdle /\ TransportIdle
        /\ CalendarIdle /\ AuxIdle

Next ==
    \/ \E c \in Cards : Start(c)
    \/ \E c \in Cards : StopCall(c)
    \/ \E c \in Cards : StopReturn(c)
    \/ \E c \in Cards, s \in Slots : LoopExit(c, s)
    \/ \E c \in Cards, s \in Slots : LoopInvoke(c, s)
    \/ \E d \in Drivers, p \in Payloads : FetchOk(d, p)
    \/ \E d \in Drivers : FetchFail(d)
    \/ \E d \in Drivers : CloseClient(d)
    \/ WeatherCompose
    \/ \E c \in Cards : Mount(c)
    \/ \E c \in Cards : TimerFire(c)
    \/ \E c \in Cards : Unmount(c)
    \/ Tick

Spec == Init /\ [][Next]_vars

\* The event loop runs every ready task, every pending I/O ends (each request
\* carries a timeout), Textual's timer keeps firing, and time does not stop.
Fairness ==
    /\ SF_vars(Tick)
    /\ \A c \in Cards : WF_vars(StopReturn(c))
    /\ \A c \in Cards : WF_vars(\E s \in Slots : LoopExit(c, s))
    /\ \A c \in Cards : WF_vars(\E s \in Slots : LoopInvoke(c, s))
    /\ \A c \in Cards : WF_vars(TimerFire(c))
    /\ \A d \in Drivers : WF_vars(FetchFail(d) \/ \E p \in Payloads : FetchOk(d, p))
    /\ \A d \in Drivers : WF_vars(CloseClient(d))

FairSpec == Spec /\ Fairness

\* the registry of an application whose cards are not being driven
InitIdleCards ==
    /\ InitCards
    /\ host = [c \in Cards |-> IF c = "Weather" THEN "loop" ELSE "widget"]
    /\ interval = [c \in Cards |-> 1]

RegistryInit == InitIdleCards /\ InitRegistry /\ StartupIdle /\ TransportIdle
        /\ CalendarIdle /\ AuxIdle

RegistryNext ==
    \/ \E i \in ObjIds : register_card(i)
    \/ \E n \in UserNames : set_user_name(n)
    \/ \E g \in Greeters : GreeterCompose(g)
    \/ \E g \in Greeters : GreeterUpdate(g)
    \/ compose

RegistrySpec == RegistryInit /\ [][RegistryNext]_vars

\* the application constructed under every environment
StartupInit ==
    /\ InitIdleCards /\ InitRegistry
    /\ env \in Envs
    /\ startup = "new"
    /\ TransportIdle /\ CalendarIdle /\ AuxIdle

StartupNext == initialize_plugins

StartupSpec == StartupInit /\ [][StartupNext]_vars

\* a TransportCard on every feed and configuration of the bounded sets
TransportInit ==
    /\ InitIdleCards /\ InitRegistry /\ StartupIdle /\ CalendarIdle
    /\ AuxIdle
    /\ departures = << >>
    /\ last_render = Text("")
    /\ tresult = "new"
    /\ \/ /\ feed \in [raises : BOOLEAN, departures : SortFeeds]
          /\ tcfg \in [configured : BOOLEAN, delay_threshold : {60},
                        max_departures : 0..MaxShown]
       \/ /\ feed \in [raises : {FALSE}, departures : LineFeeds]
          /\ tcfg \in [configured : {TRUE}, delay_threshold : Thresholds,
                        max_departures : {MaxShown}]

TransportNext ==
    \/ ParseDepartures
    \/ FormatDepartures
    \/ TransportUpdate

TransportSpec == TransportInit /\ [][TransportNext]_vars

\* a CalendarCard on every feed of the bounded set, on a machine in every
\* local zone of LocalOffsets
CalendarInit ==
    /\ InitIdleCards /\ InitRegistry /\ StartupIdle /\ TransportIdle
    /\ local_offset \in LocalOffsets
    /\ ical \in CalFeeds
    /\ events = << >>
    /\ cresult = "new"
    /\ cal_cfg \in [configured : {TRUE}, max_events : 0..MaxShown]
    /\ NewCalendarCard
    /\ AuxIdle

CalendarNext ==
    \/ ParseIcal
    \/ FormatCalendar

CalendarSpec == CalendarInit /\ [][CalendarNext]_vars

\* a new CalendarCard, with or without a URL, composed at any moment and
\* refreshed any number of times by up to MaxCalls overlapping calls, each
\* fetch giving any response of Responses
CalendarUpdateInit ==
    /\ InitIdleCards /\ InitRegistry /\ StartupIdle /\ TransportIdle
    /\ local_offset \in LocalOffsets
    /\ ical = << >>
    /\ events = << >>
    /\ cresult = "new"
    /\ cal_cfg \in [configured : BOOLEAN, max_events : {1, MaxShown}]
    /\ NewCalendarCard
    /\ AuxIdle

CalendarUpdateNext ==
    \/ CalendarCompose
    \/ \E u \in CalCalls : CalendarUpdate(u)
    \/ \E u \in CalCalls, r \in Responses : CalendarGet(u, r)
    \/ \E u \in CalCalls : CalendarClose(u)
    \/ \E u \in CalCalls : CalendarCancel(u)

CalendarUpdateSpec == CalendarUpdateInit /\ [][CalendarUpdateNext]_vars

\* a GreeterCard asked for its greeting at every hour of the day
GreetingInit ==
    /\ InitIdleCards /\ InitRegistry /\ StartupIdle /\ TransportIdle
    /\ CalendarIdle /\ PirIdle
    /\ hour \in Hours
    /\ greeting = NoGreeting

GreetingNext ==
    \/ GetGreeting
    \/ HourPasses

GreetingSpec == GreetingInit /\ [][GreetingNext]_vars

\* a new PIRScreenController with the main thread calling start() and stop(),
\* the sensor's thread calling _on_motion and the timers' threads _on_timeout
PirInit ==
    /\ InitIdleCards /\ InitRegistry /\ StartupIdle /\ TransportIdle
    /\ CalendarIdle /\ GreeterIdle
    /\ PirIdle

PirNext ==
    \/ PirStart
    \/ PirStop
    \/ MotionDetected
    \/ \E t \in Timers : OnMotion(t)
    \/ \E t \in Timers : TimerFires(t)
    \/ \E t \in Timers : OnTimeout(t)

PirSpec == PirInit /\ [][PirNext]_vars

(***************************************************************************)
(* Properties of the card lifecycle and scheduling.                        *)
(***************************************************************************)
\* the card has a driver that is meant to keep refreshing it
Driven(c) ==
    \/ host[c] = "loop" /\ running[c]
    \/ host[c] = "widget" /\ wpc[c] \in {"mounting", "armed", "callback"}

\* stop() has returned (or start() was never called)
Stopped(c) == host[c] = "loop" /\ ~running[c] /\ caller[c] = "idle"

\* the driver's refresh was cancelled where it was suspended
Cancelled(d) == IF d = 0 THEN wpc["Weather"] = "removed"
                         ELSE tpc["Weather"][d] = "cancelled"

\* C1 as claimed: a started card's update() is invoked at once and then at
\* least once per update_interval, so while the card runs never more than
\* update_interval ticks pass without an invocation.
C1_OncePerInterval ==
    \A c \in Cards : (host[c] = "loop" /\ running[c]) => since[c] <= interval[c]

\* C1 amended: update() is invoked at once when the card is started or
\* mounted (no tick passes first), and Card._update_loop invokes it again
\* update_interval after each refresh has finished: never more than
\* update_interval ticks pass with the card running and no refresh in flight.
C1_AfterEachRefresh ==
    \A c \in Cards :
        /\ (host[c] = "loop" /\ running[c]) =>
              /\ ~invoked[c] => since[c] = 0
              /\ idle[c] <= interval[c]
        /\ (host[c] = "widget" /\ wpc[c] # "unmounted") => invoked[c]

\* a refresh that took time: the next invocation is due update_interval after
\* it finished, more than update_interval after the previous invocation
C1_Witness ==
    \E c \in Cards :
        /\ host[c] = "loop" /\ running[c] /\ invoked[c]
        /\ \E s \in Slots : tpc[c][s] = "sleep" /\ trem[c][s] = 0
        /\ idle[c] = interval[c]
        /\ since[c] > interval[c]

\* C2: once stop() has returned no update() of that card is invoked, and
\* stop() on a card that is stopped or was never started changes nothing.
C2_StopIsFinal ==
    /\ [](\A c \in Cards : Stopped(c) => ~invoked[c])
    /\ [][\A c \in Cards : (StopCall(c) /\ Stopped(c)) => UNCHANGED vars]_vars

\* a card that was started, refreshed, and then stopped
C2_Witness ==
    \E c \in Cards :
        /\ Stopped(c)
        /\ update_task[c] # 0 /\ tpc[c][update_task[c]] = "cancelled"
        /\ last_update[c] # None

\* C3: a refresh that raises leaves the card scheduled: its driver is still
\* there, and update() is invoked again unless the card is stopped first.
C3_StillScheduled ==
    /\ [](\A c \in Cards :
            (outcome[c] = "raised" /\ host[c] = "loop" /\ running[c])
                => \E s \in Slots : Live(c, s))
    /\ [](\A c \in Cards :
            (outcome[c] = "raised" /\ host[c] = "widget" /\ wpc[c] # "removed")
                => wpc[c] = "armed")
    /\ \A c \in Cards :
            (outcome[c] = "raised" /\ Driven(c))
                ~> (outcome[c] # "raised" \/ ~Driven(c))

\* the mounted weather card stored a malformed payload, its repaint raised,
\* and the timer has invoked update() again
C3_Witness ==
    /\ host["Weather"] = "widget"
    /\ wpc["Weather"] = "callback" /\ upc[0] = "get"
    /\ weather_data = "bad" /\ error_message = ""

\* C4: a card's refresh starts at its own tick whatever the other cards'
\* refreshes are doing: a due loop task, an armed timer and a mount can
\* always invoke update().
C4_Independent ==
    \A c \in Cards :
        /\ \A s \in Slots : (Due(c, s) /\ running[c]) => ENABLED LoopInvoke(c, s)
        /\ wpc[c] = "armed" => ENABLED TimerFire(c)
        /\ (host[c] = "widget" /\ wpc[c] = "unmounted") => ENABLED Mount(c)

\* the weather refresh has been in flight for a tick or more and the clock
\* card was refreshed at this instant
C4_Witness ==
    /\ InFlight("Weather") /\ since["Weather"] >= 1
    /\ last_update["Clock"] = Now

\* C5 as claimed: at most one update() of a card is in flight.
C5_OneInFlight == Cardinality({d \in Drivers : upc[d] # "idle"}) <= 1

\* driver d's refresh of the weather card ends in this step
Completes(d) ==
    /\ upc[d] # "idle" /\ upc'[d] = "idle"
    /\ IF d = 0 THEN wpc'["Weather"] = "armed" ELSE tpc'["Weather"][d] = "sleep"

\* C6 as claimed: a refresh that succeeds stamps _last_update; a refresh that
\* fails leaves _last_update and the stored payload as they were before it.
C6_FailureLeavesState ==
    [][\A d \in Drivers : Completes(d) =>
          /\ outcome'["Weather"] = "ok" => last_update'["Weather"] = Now
          /\ outcome'["Weather"] \in {"caught", "raised"} =>
                /\ last_update'["Weather"] = last_update["Weather"]
                /\ "data" \notin written[d]]_vars

\* C7: wherever a refresh is suspended, and so wherever it can be cancelled,
\* it has assigned either none or all of the fields it replaces.
C7_AtomicReplace ==
    \A d \in Drivers :
        (upc[d] # "idle" \/ Cancelled(d)) => written[d] \in {{}, {"data", "error"}}

\* a refresh cancelled after the response arrived: payload and error are new
C7_Witness ==
    \E d \in Drivers :
        /\ Cancelled(d) /\ written[d] = {"data", "error"}
        /\ weather_data \in Payloads /\ error_message = ""

\* C8: is_running() is false on a new card, becomes true with start(), stays
\* true until stop() is called, and is false from then until the next start().
C8_Lifecycle ==
    /\ \A c \in Cards : ~running[c]
    /\ [][\A c \in Cards :
            /\ Start(c) => running'[c]
            /\ StopCall(c) => ~running'[c]
            /\ (~Start(c) /\ ~StopCall(c)) => running'[c] = running[c]]_vars

\* a card that ran and whose stop() has returned
C8_Witness ==
    \E c \in Cards :
        /\ host[c] = "loop" /\ ~running[c] /\ caller[c] = "idle"
        /\ update_task[c] # 0 /\ tpc[c][update_task[c]] = "cancelled"

(***************************************************************************)
(* Properties of the registry.                                             *)
(***************************************************************************)
\* the card of the latest register_card call made under exactly the name n
LastRegistered(n) ==
    LET idx == {k \in 1..Len(reg_log) : Obj(reg_log[k]).name = n}
    IN  IF idx = {} THEN NoCard
        ELSE reg_log[CHOOSE k \in idx : \A j \in idx : j <= k]

\* C9: get_card(n) is the card most recently registered under exactly n, and
\* None when no card was registered under n.
C9_LastWriteWins == \A n \in Names : get_card(n) = LastRegistered(n)

\* two different cards registered under one name: the second one is found
C9_Witness ==
    /\ Len(reg_log) = 2
    /\ reg_log[1] # reg_log[2]
    /\ Obj(reg_log[1]).name = Obj(reg_log[2]).name
    /\ get_card(Obj(reg_log[2]).name) = reg_log[2]

\* C10: set_user_name(n) sets the name of the GreeterCard registered as
\* "Greeter" and repaints its widget at once; without such a card it does
\* nothing; the registry and every other card stay as they were.
C10_SetUserName ==
    [][\A n \in UserNames : set_user_name(n) =>
          /\ cards' = cards /\ reg_log' = reg_log /\ UNCHANGED sched_vars
          /\ IF get_card("Greeter") \in Greeters
             THEN /\ user_name'[get_card("Greeter")] = n
                  /\ greeting_widget'[get_card("Greeter")] =
                        IF greeting_widget[get_card("Greeter")] = << >>
                        THEN << >> ELSE <<n>>
                  /\ \A h \in Greeters \ {get_card("Greeter")} :
                        /\ user_name'[h] = user_name[h]
                        /\ greeting_widget'[h] = greeting_widget[h]
             ELSE UNCHANGED <<user_name, greeting_widget>>]_vars

\* the registered greeter shows the recognised name
C10_Witness ==
    /\ get_card("Greeter") \in Greeters
    /\ user_name[get_card("Greeter")] = "Alice"
    /\ greeting_widget[get_card("Greeter")] = <<"Alice">>

\* the enabled cards registered right now at position p
EnabledAt(p) ==
    {n \in DOMAIN cards : Obj(cards[n]).enabled /\ Obj(cards[n]).position = p}

\* C11: compose yields exactly nine elements, the k-th for the k-th
\* CardPosition; an element is the widget of one registered, enabled card of
\* that position, and it is an empty placeholder exactly when no enabled card
\* is registered at that position.
C11_NineElements ==
    [][compose =>
        /\ Len(grid') = 9
        /\ \A k \in 1..9 :
              /\ grid'[k].classes = position_map[all_positions[k]]
              /\ grid'[k].kind \in {"CardWidget", "Static"}
              /\ grid'[k].kind = "CardWidget" =>
                    \E n \in EnabledAt(all_positions[k]) : cards[n] = grid'[k].card
              /\ grid'[k].kind = "Static" <=> EnabledAt(all_positions[k]) = {}]_vars

\* a composed layout over a disabled card and two enabled cards that share a
\* position: one widget there, a placeholder at the disabled card's position
C11_Witness ==
    /\ Len(grid) = 9
    /\ \E n \in DOMAIN cards : ~Obj(cards[n]).enabled
    /\ Cardinality(EnabledAt("top_center")) = 2
    /\ grid[2].kind = "CardWidget" /\ grid[5].kind = "Static"
    /\ Cardinality({k \in 1..9 : grid[k].kind = "CardWidget"}) = 1

(***************************************************************************)
(* Properties of startup.                                                  *)
(***************************************************************************)
\* every setting the environment gives is well-formed
WellFormed(e) ==
    /\ e.CALENDAR_MAX_EVENTS # "garbage"
    /\ e.WEATHER_LATITUDE # "garbage"

\* the cards the claim expects under environment e
ExpectedCards(e) ==
    {"Greeter", "Clock", "Weather", "QlikMenu"}
    \cup (IF e.CALENDAR_ICAL_URL \notin {Unset, ""} THEN {"Calendar"} ELSE {})
    \cup (IF e.TRANSPORT_STATION_ID \notin {Unset, ""}
             /\ e.TRANSPORT_API_KEY \notin {Unset, ""}
          THEN {"Transport"} ELSE {})

\* C12 as claimed: whatever optional settings are absent, startup succeeds
\* and registers Greeter, Clock, Weather and QlikMenu, Calendar exactly when
\* CALENDAR_ICAL_URL is non-empty, and Transport exactly when both
\* TRANSPORT_STATION_ID and TRANSPORT_API_KEY are non-empty.
C12_StartupRegisters ==
    (startup # "new" /\ WellFormed(env)) =>
        /\ startup = "ok"
        /\ DOMAIN cards = ExpectedCards(env)

(***************************************************************************)
(* Properties of the transport card.                                       *)
(***************************************************************************)
\* the feed records the claims keep: non-empty and not flagged canceled
KeptEntries == SelectSeq(feed.departures,
                         LAMBDA e : e.kind = "entry" /\ ~e.canceled)

\* the departure a kept feed record stands for
ItemOf(e) == [expected |-> parse_time(e.realtime),
              timetable |-> parse_time(e.scheduled),
              delay_seconds |-> e.delay]

\* the claimed sort key: live estimate, else scheduled time, else fetch time
ClaimedKey(item) ==
    IF item.expected # Nothing THEN item.expected[1]
    ELSE IF item.timetable # Nothing THEN item.timetable[1]
    ELSE FetchNow

\* neither a live estimate nor a scheduled time
NoTime(item) == item.expected = Nothing /\ item.timetable = Nothing

\* how often x occurs in seq
Count(seq, x) == Cardinality({i \in DOMAIN seq : seq[i] = x})

\* _parse_departures has returned
Parsed == tresult \in {"parsed", "formatted"}

\* C13: _parse_departures returns exactly the non-empty, non-canceled feed
\* records (a record whose timestamp is absent or unparsable is kept, with
\* that time None), in ascending order of: live estimate, else scheduled
\* time, else fetch time.
C13_ParsedAndSorted ==
    Parsed =>
        /\ Len(departures) = Len(KeptEntries)
        /\ \A k \in DOMAIN KeptEntries :
              Count(departures, ItemOf(KeptEntries[k]))
                = Count([j \in DOMAIN KeptEntries |-> ItemOf(KeptEntries[j])],
                        ItemOf(KeptEntries[k]))
        /\ \A i, j \in DOMAIN departures :
              i < j => ClaimedKey(departures[i]) <= ClaimedKey(departures[j])

\* a feed of three records, one canceled, comes back as two, reordered; the
\* record with the unparsable estimate is kept and sorts by its schedule
C13_Witness ==
    /\ tresult = "parsed"
    /\ Len(feed.departures) = 3 /\ Len(departures) = 2
    /\ feed.departures[1].realtime = Garbage
    /\ feed.departures[2].canceled
    /\ departures[1].expected = Some(-600)
    /\ departures[2].expected = Nothing /\ departures[2].timetable = Some(300)

\* C14 as claimed: in the sorted list every departure with neither a live
\* estimate nor a scheduled time comes after every departure that has one.
C14_UntimedLast ==
    Parsed =>
        \A i, j \in DOMAIN departures :
            (NoTime(departures[i]) /\ ~NoTime(departures[j])) => j < i

\* C15: the rendered list is the first max_departures records of the sorted
\* list: at most max_departures lines, line k for record k, and no displayed
\* record sorts later than an omitted one.
C15_FirstShown ==
    tresult = "formatted" =>
        /\ Len(last_render.lines) <= tcfg.max_departures
        /\ Len(last_render.lines) <= Len(departures)
        /\ Len(last_render.lines) < tcfg.max_departures
              => Len(last_render.lines) = Len(departures)
        /\ \A k \in DOMAIN last_render.lines :
              /\ last_render.lines[k].dep = departures[k]
              /\ \A e \in {KeptEntries[j] : j \in DOMAIN KeptEntries} :
                    \/ \E m \in DOMAIN last_render.lines :
                          last_render.lines[m].dep = ItemOf(e)
                    \/ ClaimedKey(departures[k]) <= ClaimedKey(ItemOf(e))

\* three departures, two lines: the record left out came first in the feed
\* and sorts last
C15_Witness ==
    /\ tresult = "formatted"
    /\ tcfg.max_departures = 2 /\ Len(departures) = 3
    /\ Len(last_render.lines) = 2
    /\ ItemOf(feed.departures[1]) = departures[3]
    /\ ClaimedKey(departures[2]) < ClaimedKey(departures[3])

\* the rendered lines of departures that have a live estimate
TimedLines ==
    {l \in {last_render.lines[k] : k \in DOMAIN last_render.lines} :
        l.dep.expected # Nothing}
AllLines == {last_render.lines[k] : k \in DOMAIN last_render.lines}

\* m is the ceiling of delta / 60
IsCeiling(m, delta) == 60 * m >= delta /\ 60 * (m - 1) < delta

\* C16 as claimed: the ETA phrase is "left" when the estimate is more than
\* 60 s in the past, "now" when it is within 60 s of now (60 s ahead
\* included), and otherwise "in Nm" with N the ceiling of the minutes, N >= 1.
C16_EtaPhrase ==
    \A l \in TimedLines :
        LET delta == l.dep.expected[1] - FetchNow
        IN  /\ delta < -60 => l.time_part.phrase = "left"
            /\ (-60 <= delta /\ delta <= 60) => l.time_part.phrase = "now"
            /\ delta > 60 =>
                  /\ l.time_part.phrase = "in"
                  /\ IsCeiling(l.time_part.minutes, delta)
                  /\ l.time_part.minutes >= 1

\* C16 amended: "left" when the estimate is more than 60 s in the past, "now"
\* from 60 s in the past up to, but not including, 60 s ahead, and from 60 s
\* ahead on "in Nm" with N the ceiling of the minutes, never 0.
C16_EtaPhraseHalfOpen ==
    \A l \in TimedLines :
        LET delta == l.dep.expected[1] - FetchNow
        IN  /\ delta < -60 => l.time_part.phrase = "left"
            /\ (-60 <= delta /\ delta < 60) => l.time_part.phrase = "now"
            /\ delta >= 60 =>
                  /\ l.time_part.phrase = "in"
                  /\ IsCeiling(l.time_part.minutes, delta)
                  /\ l.time_part.minutes >= 1

\* an estimate exactly 60 s ahead reads "in 1m"
C16_Witness ==
    \E l \in TimedLines :
        /\ l.dep.expected = Some(60)
        /\ l.time_part = [phrase |-> "in", minutes |-> 1]

\* C17 as claimed: a line carries a delay warning exactly when
\* |delay_seconds| >= delay_threshold, and the warning shows the sign of
\* delay_seconds and |delay_seconds| / 60 rounded to a nearest minute.
C17_DelayWarning ==
    \A l \in AllLines :
        LET d == l.dep.delay_seconds
        IN  /\ l.delay_part # Nothing <=> Abs(d) >= tcfg.delay_threshold
            /\ l.delay_part # Nothing =>
                  /\ l.delay_part[1].sign = IF d < 0 THEN "-" ELSE "+"
                  /\ Abs(60 * l.delay_part[1].minutes - Abs(d)) <= 30

\* the signed minute count a warning shows
SignedMinutes(w) == IF w.sign = "-" THEN -w.minutes ELSE w.minutes

\* C17 amended: a line carries a delay warning exactly when delay_seconds is
\* not 0 and |delay_seconds| >= delay_threshold; the warning shows
\* delay_seconds / 60 rounded to the nearest minute (a tie to the even one)
\* as a signed count: "-" when the rounded count is negative, "+" otherwise.
C17_DelayWarningSigned ==
    \A l \in AllLines :
        LET d == l.dep.delay_seconds
        IN  /\ l.delay_part # Nothing <=> (d # 0 /\ Abs(d) >= tcfg.delay_threshold)
            /\ l.delay_part # Nothing =>
                  LET m == SignedMinutes(l.delay_part[1])
                  IN  /\ Abs(60 * m - d) <= 30
                      /\ Abs(60 * m - d) = 30 => m % 2 = 0
                      /\ l.delay_part[1].minutes >= 0
                      /\ l.delay_part[1].sign = "-" <=> m < 0
                      /\ l.delay_part[1].sign \in {"+", "-"}

\* a departure 20 s early, above the threshold, is warned about as "+0m"
C17_Witness ==
    \E l \in AllLines :
        /\ l.dep.delay_seconds = -20
        /\ tcfg.delay_threshold = 20
        /\ l.delay_part = Some([sign |-> "+", minutes |-> 0])

\* the lines of the example departure: delay 180 s, estimate 8 minutes ahead
ExampleLines ==
    {l \in TimedLines : l.dep.delay_seconds = 180 /\ l.dep.expected = Some(480)}

\* C18 as claimed: the example departure renders "in 8m" with the warning
\* "+3m" when delay_threshold = 60 and with no warning when
\* delay_threshold = 180.
C18_Example ==
    \A l \in ExampleLines :
        /\ l.time_part = [phrase |-> "in", minutes |-> 8]
        /\ tcfg.delay_threshold = 60 =>
              l.delay_part = Some([sign |-> "+", minutes |-> 3])
        /\ tcfg.delay_threshold = 180 => l.delay_part = Nothing

\* C18 amended: the example departure renders "in 8m" with the warning "+3m"
\* when delay_threshold = 60 and also when delay_threshold = 180 (a delay
\* equal to the threshold is warned about); it renders no warning when
\* delay_threshold = 181.
C18_ExampleAtThreshold ==
    \A l \in ExampleLines :
        /\ l.time_part = [phrase |-> "in", minutes |-> 8]
        /\ tcfg.delay_threshold \in {60, 180} =>
              l.delay_part = Some([sign |-> "+", minutes |-> 3])
        /\ tcfg.delay_threshold = 181 => l.delay_part = Nothing

\* the example departure rendered with delay_threshold = 180: "+3m" is shown
C18_Witness ==
    \E l \in ExampleLines :
        /\ tcfg.delay_threshold = 180
        /\ l.time_part.minutes = 8
        /\ l.delay_part = Some([sign |-> "+", minutes |-> 3])

\* C19 as claimed: update() returns normally; after a failed fetch the
\* rendered text is an inline error string, and after a feed with no valid
\* record it is the fixed "No upcoming departures" message.
C19_UpdateCatches ==
    tresult \notin {"new", "parsed", "formatted"} =>
        /\ tresult = "returned"
        /\ (tcfg.configured /\ feed.raises) => last_render = Text("Error")
        /\ (tcfg.configured /\ ~feed.raises /\ KeptEntries = << >>)
              => last_render = Text("No upcoming departures")

(***************************************************************************)
(* Calendar properties.                                                    *)
(***************************************************************************)
\* the start is at or after the fetch-time now, as instants
StartsInFuture(c) == Instant(normalize_start(c.start)) >= CalNow

ClaimedRetained(c) == HasStartAndSummary(c) /\ StartsInFuture(c)

\* the components of the feed that are to be retained and yield the event ev
ComponentsFor(ev) ==
    {i \in DOMAIN ical : ClaimedRetained(ical[i]) /\ EventOf(ical[i]) = ev}

\* C20 as claimed: _parse_ical_events retains a component if and only if it
\* has a start and a summary and its normalized start, as an instant, is at
\* or after the fetch-time now (no past event kept, no future event lost).
C20_FutureOnly ==
    cresult = "parsed" =>
        \A ev \in {EventOf(c) : c \in CalComponents} :
            Count(events, ev) = Cardinality(ComponentsFor(ev))

\* _parse_ical_events has returned
CalParsed == cresult \in {"parsed", "formatted"}

\* the events of the displayed lines, in display order
ShownEvents(r) ==
    [i \in DOMAIN r.lines |-> [icon |-> r.lines[i].icon,
                               summary |-> r.lines[i].summary]]

EventHeads(evs) ==
    [i \in DOMAIN evs |-> [icon |-> evs[i].icon, summary |-> evs[i].summary]]

\* C21: the list _parse_ical_events returns is ascending by normalized start
\* whatever the order of the events in the feed, and the rendered calendar
\* shows the first max_events events of that list and no other.
C21_SortedAndCapped ==
    /\ CalParsed =>
          \A i, j \in DOMAIN events :
              i < j => Instant(events[i].start) <= Instant(events[j].start)
    /\ (cresult = "formatted" /\ events # << >>) =>
          /\ formatted.kind = "events"
          /\ ShownEvents(formatted) =
                EventHeads(SubSeq(events, 1, Min(cal_cfg.max_events, Len(events))))

\* three events given latest first come out earliest first, and the third is
\* cut from the display
C21_Witness ==
    /\ cresult = "formatted"
    /\ Len(ical) = 3 /\ Len(events) = 3
    /\ Instant(normalize_start(ical[1].start)) > Instant(normalize_start(ical[2].start))
    /\ Instant(normalize_start(ical[2].start)) > Instant(normalize_start(ical[3].start))
    /\ Instant(events[1].start) < Instant(events[3].start)
    /\ cal_cfg.max_events = 2
    /\ Len(formatted.lines) = 2

\* this step ends a refresh of the card whose fetch or parse failed
RefreshFailed ==
    \E u \in CalCalls, r \in Responses :
        /\ r.kind \in {"http_error", "other_error", "malformed"}
        /\ CalendarGet(u, r)
        /\ cal_calls'[u].pc = "idle"

\* the widget shows the error block, its detail cut to MaxDetail characters
ShowsInlineError ==
    /\ cal_widget.content.kind = "Calendar Error"
    /\ cal_widget.content.error.detail <= MaxDetail

\* C22 as claimed: when the fetch or the parse of a refresh fails, update()
\* returns normally, and the card's display shows an inline, truncated error
\* string in place of event data.
C22_UpdateCatches ==
    [][RefreshFailed =>
         /\ cal_last'.result = "returned"
         /\ cal_widget.composed => ShowsInlineError']_vars

\* this step ends a refresh of a composed card that has a URL: its fetch
\* failed, or its client is closed after a fetch that succeeded
Refresh ==
    /\ cal_cfg.configured /\ cal_widget.composed
    /\ \/ \E u \in CalCalls, r \in Responses :
             CalendarGet(u, r) /\ cal_calls'[u].pc = "idle"
       \/ \E u \in CalCalls : CalendarClose(u)

\* C30 as claimed: after each refresh of a card with a URL the display shows
\* the inline error exactly when that refresh failed; a failed refresh leaves
\* the stored event list as it was, and a successful one clears the error
\* message and shows the newly parsed events.
C30_ErrorIffLastFailed ==
    [][Refresh =>
         LET failed == cal_last'.response.kind # "ok"
         IN  /\ (cal_widget'.content.kind = "Calendar Error") <=> failed
             /\ failed => cal_events' = cal_events
             /\ ~failed =>
                   /\ cal_error' = ErrNone
                   /\ cal_events' =
                         parse_ical_events(cal_last'.response.feed, local_offset)
                   /\ cal_widget'.content =
                         format_calendar(cal_events', ErrNone, cal_cfg.max_events)]_vars

(***************************************************************************)
(* Greeting properties.                                                    *)
(***************************************************************************)
\* C23: the greeting is defined at every hour 0..23: "Good morning" from 5
\* to 11, "Good afternoon" from 12 to 16, "Good evening" from 17 to 21 and
\* "Good night" at every other hour.
C23_GreetingByHour ==
    /\ \A h \in Hours :
          get_greeting(h) \in {"Good morning", "Good afternoon", "Good evening",
                               "Good night"}
    /\ greeting # NoGreeting =>
          /\ greeting.hour \in Hours
          /\ greeting.phrase =
                IF greeting.hour \in 5..11 THEN "Good morning"
                ELSE IF greeting.hour \in 12..16 THEN "Good afternoon"
                ELSE IF greeting.hour \in 17..21 THEN "Good evening"
                ELSE "Good night"

\* asked at 22 o'clock the card says good night
C23_Witness == greeting = [hour |-> 22, phrase |-> "Good night"]

(***************************************************************************)
(* Screen controller properties.                                           *)
(***************************************************************************)
\* the flag issued last ("none" before the first)
LastCommand(cmds) == IF cmds = << >> THEN "none" ELSE cmds[Len(cmds)]

\* C24: screen commands alternate, beginning with --on: --on is issued only
\* while the screen is off and --off only while it is on, whatever the
\* order of motion, timeout and stop events.
C24_CommandsAlternate ==
    [][pir_commands' # pir_commands =>
          \/ /\ pir_commands' = Issue(pir_commands, "--on")
             /\ ~pir_screen_on /\ pir_screen_on'
             /\ LastCommand(pir_commands) \in {"none", "--off"}
          \/ /\ pir_commands' = Issue(pir_commands, "--off")
             /\ pir_screen_on /\ ~pir_screen_on'
             /\ LastCommand(pir_commands) = "--on"]_vars

\* the screen went off and on again, and a further motion event re-armed
\* the timer without another --on
C24_Witness ==
    /\ pir_commands = <<"--off", "--on">>
    /\ pir_screen_on
    /\ pir_timer # 0 /\ \E t \in Timers \ {pir_timer} : pir_timers[t] # "dead"

\* C25: stop(), from any state, cancels the tracked timer, closes the
\* sensor and leaves the controller with no timer, no sensor and the screen
\* off, issuing --off only if the screen was on; it can be called on a
\* controller that was never started.
C25_StopCleansUp ==
    [][/\ PirIdle => ENABLED PirStop
       /\ PirStop =>
            /\ pir_timer' = 0 /\ ~pir_sensor' /\ ~pir_screen_on'
            /\ pir_timer # 0 =>
                  pir_timers'[pir_timer] = timer_cancel(pir_timers[pir_timer], "stop")
            /\ pir_timer # 0 => pir_timers'[pir_timer] # "armed"
            /\ pir_commands' = IF pir_screen_on
                               THEN Issue(pir_commands, "--off")
                               ELSE pir_commands]_vars

\* stop() was called with the screen on, a timer armed and the sensor open
C25_Witness ==
    /\ pir_stopped /\ ~pir_sensor /\ pir_timer = 0 /\ ~pir_screen_on
    /\ pir_commands = <<"--on", "--off">>
    /\ \A t \in Timers : pir_timers[t] = "dead"

\* _on_motion ran: it held the lock from the wait to its return
MotionHandled == motion_pc = "waiting" /\ motion_pc' = "idle"

\* C26 as claimed: after _on_motion the controller tracks the timer just
\* armed, and a timer that a later motion event cancelled never turns the
\* screen off when it fires.
C26_MotionSupersedes ==
    [][/\ MotionHandled =>
            /\ pir_timer' # 0
            /\ pir_timers[pir_timer'] = "dead" /\ pir_timers'[pir_timer'] = "armed"
       /\ \A t \in Timers :
            (pir_timers[t] = "fired_superseded" /\ pir_timers'[t] = "dead")
               => pir_screen_on' = pir_screen_on]_vars

\* C27 as claimed: once stop() has returned, and until start() is called,
\* the screen is off and no inactivity timer is armed.
C27_StoppedStaysOff ==
    pir_stopped =>
        /\ ~pir_screen_on
        /\ pir_timer = 0
        /\ \A t \in Timers : pir_timers[t] # "armed"

(***************************************************************************)
(* Start and stop called in any order.                                     *)
(***************************************************************************)
\* the update-loop tasks of card c that are not done
LiveTasks(c) == {s \in Slots : Live(c, s)}

\* C28 as claimed: whatever the order of start() and stop() calls on a card,
\* start() twice in a row included, at most one of its update-loop tasks is
\* live at a time, and none is live once stop() has returned.
C28_OneLoopTask ==
    \A c \in Cards :
        /\ Cardinality(LiveTasks(c)) <= 1
        /\ Stopped(c) => LiveTasks(c) = {}

(***************************************************************************)
(* The widgets compose records and the widgets it yields.                  *)
(***************************************************************************)
\* the enabled cards registered right now
EnabledCards == {n \in DOMAIN cards : Obj(cards[n]).enabled}

\* the card registered as n has its widget among the elements yielded
YieldedIn(g, n) ==
    \E k \in DOMAIN g : g[k].kind = "CardWidget" /\ g[k].card = cards[n]

\* the place of the key n in self.cards
PlaceOf(n) ==
    CHOOSE k \in DOMAIN KeyOrder(reg_log) : KeyOrder(reg_log)[k] = n

\* no enabled card later in self.cards has the position of the card at n
LastAtPosition(n) ==
    \A m \in EnabledAt(Obj(cards[n]).position) : PlaceOf(m) <= PlaceOf(n)

\* C29 as claimed: whatever positions the registered cards have, the widget
\* compose records in card_widgets for an enabled card is among the nine
\* elements it yields.
C29_RecordedIsYielded ==
    [][compose =>
         \A n \in EnabledCards :
             /\ n \in DOMAIN card_widgets' /\ card_widgets'[n] = cards[n]
             /\ YieldedIn(grid', n)]_vars

\* C29 amended: compose records a widget for every enabled card, and yields
\* it exactly when no enabled card later in self.cards has the same position.
C29_LastAtPositionYielded ==
    [][compose =>
         \A n \in EnabledCards :
             /\ n \in DOMAIN card_widgets' /\ card_widgets'[n] = cards[n]
             /\ YieldedIn(grid', n) <=> LastAtPosition(n)]_vars

\* composed with two enabled cards at one position: both are recorded, the
\* later one is yielded and the earlier one is not
C29_Witness ==
    /\ Len(grid) = 9
    /\ \E n, m \in EnabledCards :
          /\ n # m /\ Obj(cards[n]).position = Obj(cards[m]).position
          /\ PlaceOf(n) < PlaceOf(m)
          /\ {n, m} \subseteq DOMAIN card_widgets
          /\ card_widgets[n] = cards[n] /\ card_widgets[m] = cards[m]
          /\ YieldedIn(grid, m) /\ ~YieldedIn(grid, n)

====
